---------------------------- MODULE Spec2Model ----------------------------
(***************************************************************************)
(* Forest-inventory pipeline (Streamlit application):                      *)
(*   upload -> detect_and_map_columns -> process_data ->                   *)
(*   plot / species aggregation -> calculate_statistics.                   *)
(*                                                                         *)
(* Conventions                                                             *)
(*  - A column name / header is a sequence of characters (one-character    *)
(*    strings), so that strip(), upper() and the "kw in col_upper"         *)
(*    substring tests are computed, not assumed.  Non-ASCII characters are *)
(*    written as tokens: "deg" is the degree sign U+00B0, "ord" the        *)
(*    masculine ordinal indicator U+00BA, "a'" "i'" "u'" "e'" (and their   *)
(*    capitals) the acute-accented letters, "^3" the superscript three.    *)
(*  - A DataFrame is [cols, rows, index]: the column names in order, the   *)
(*    rows (each a sequence of cells, one per column) and the row labels.  *)
(*  - A cell is [k, s, v]: k = "null" (NaN/None), "str" (text s) or "num"  *)
(*    (number v).                                                          *)
(*  - None / Some(x) are <<>> / <<x>>.                                     *)
(***************************************************************************)
EXTENDS Integers, Sequences, FiniteSets, TLC

VARIABLES
    uploaded_file,   \* the table held by the st.file_uploader widget (None or Some)
    widgets,         \* the project form's current values
    input_data,      \* st.session_state.input_data
    file_uploaded,   \* st.session_state.file_uploaded
    project_info,    \* st.session_state.project_info
    results_df,      \* st.session_state.results_df
    statistics,      \* st.session_state.statistics
    data_processed,  \* st.session_state.data_processed
    st_out,          \* what the last script run showed (messages, error)
    analysis         \* a direct call of a StatisticsAnalyzer helper: its arguments and result

vars == <<uploaded_file, widgets, input_data, file_uploaded, project_info,
          results_df, statistics, data_processed, st_out, analysis>>

session == <<input_data, file_uploaded, project_info, results_df, statistics, data_processed>>

-----------------------------------------------------------------------------
(* Bounds of the model *)

MaxCols == 3      \* columns of an uploaded sheet (normalizer runs)
MaxRows == 3      \* rows of an uploaded sheet (validation runs)
MaxTrees == 3     \* trees of an uploaded sheet (aggregation runs)
MaxPlots == 3     \* "Quantidade de Parcelas"

-----------------------------------------------------------------------------
(* Generic helpers *)

None == <<>>
Some(x) == <<x>>
IsNone(o) == o = <<>>
Get(o) == o[1]

Range(s) == {s[i] : i \in 1..Len(s)}
InSeq(x, s) == \E i \in 1..Len(s) : s[i] = x

RECURSIVE SumSeq(_)
SumSeq(s) == IF s = <<>> THEN 0 ELSE Head(s) + SumSeq(Tail(s))

RECURSIVE SelectIdx(_, _, _)
\* the increasing sequence of the indices i in lo..hi with keep[i]
SelectIdx(keep, lo, hi) ==
    IF lo > hi THEN <<>>
    ELSE (IF keep[lo] THEN <<lo>> ELSE <<>>) \o SelectIdx(keep, lo + 1, hi)

-----------------------------------------------------------------------------
(* Python string operations on character sequences *)

LowerChars == <<"a","b","c","d","e","f","g","h","i","j","k","l","m","n","o","p","q",
                "r","s","t","u","v","w","x","y","z","a'","e'","i'","u'">>
UpperChars == <<"A","B","C","D","E","F","G","H","I","J","K","L","M","N","O","P","Q",
                "R","S","T","U","V","W","X","Y","Z","A'","E'","I'","U'">>

\* str.upper() on one character; "deg", "ord", digits, punctuation are unchanged
UpperChar(c) ==
    IF \E i \in 1..Len(LowerChars) : LowerChars[i] = c
    THEN UpperChars[CHOOSE i \in 1..Len(LowerChars) : LowerChars[i] = c]
    ELSE c

StrUpper(s) == [i \in 1..Len(s) |-> UpperChar(s[i])]

\* Python's "sub in s"
Contains(s, sub) ==
    \E i \in 0..(Len(s) - Len(sub)) : SubSeq(s, i + 1, i + Len(sub)) = sub

RECURSIVE LStrip(_)
LStrip(s) == IF s # <<>> /\ Head(s) = " " THEN LStrip(Tail(s)) ELSE s

RECURSIVE RStrip(_)
RStrip(s) == IF s # <<>> /\ s[Len(s)] = " " THEN RStrip(SubSeq(s, 1, Len(s) - 1)) ELSE s

Strip(s) == RStrip(LStrip(s))

Digits == <<"0","1","2","3","4","5","6","7","8","9">>

RECURSIVE DecimalStr(_)
\* str(n) for n >= 0, as a character sequence
DecimalStr(n) ==
    IF n < 10 THEN <<Digits[n + 1]>>
    ELSE DecimalStr(n \div 10) \o <<Digits[(n % 10) + 1]>>

-----------------------------------------------------------------------------
(* Keywords and column names of the source, as character sequences *)

kw_N_DEG == <<"N", "deg">>
kw_N == <<"N">>
kw_NO == <<"N", "O">>
kw_NUM == <<"N", "U", "M">>
kw_NUMERO == <<"N", "U", "M", "E", "R", "O">>
kw_NUMERO_ACUTE == <<"N", "U'", "M", "E", "R", "O">>
kw_NOME == <<"N", "O", "M", "E">>
kw_COMUM == <<"C", "O", "M", "U", "M">>
kw_CIENTIFICO_ACUTE == <<"C", "I", "E", "N", "T", "I'", "F", "I", "C", "O">>
kw_CIENTIFICO == <<"C", "I", "E", "N", "T", "I", "F", "I", "C", "O">>
kw_CAP == <<"C", "A", "P">>
kw_HT == <<"H", "T">>
kw_ALTURA == <<"A", "L", "T", "U", "R", "A">>
kw_UA == <<"U", "A">>
kw_PARCELA == <<"P", "A", "R", "C", "E", "L", "A">>
kw_UNIDADE == <<"U", "N", "I", "D", "A", "D", "E">>
kw_NOME_COMUM == <<"N", "O", "M", "E", " ", "C", "O", "M", "U", "M">>
kw_ESPECIE == <<"E", "S", "P", "E'", "C", "I", "E">>
kw_SPECIES == <<"S", "P", "E", "C", "I", "E", "S">>
kw_NOME_CIENTIFICO == <<"N", "O", "M", "E", " ", "C", "I", "E", "N", "T", "I'", "F", "I", "C", "O">>

col_tree == <<"N", "ord", " ", "d", "a", " ", "a'", "r", "v", "o", "r", "e">>
col_comum == <<"N", "o", "m", "e", " ", "c", "o", "m", "u", "m">>
col_cientifico == <<"N", "o", "m", "e", " ", "c", "i", "e", "n", "t", "i'", "f", "i", "c", "o">>
col_cap == <<"C", "A", "P", " ", "(", "c", "m", ")">>
col_ht == <<"H", "T", " ", "(", "m", ")">>
col_composite == <<"N", "o", "m", "e", " ", "c", "o", "m", "u", "m", "/", "c", "i", "e", "n", "t", "i'", "f", "i", "c", "o">>
col_dap == <<"D", "A", "P", " ", "(", "c", "m", ")">>
col_vt == <<"V", "T", " ", "(", "m", "^3", ")">>
col_vt_ha == <<"V", "T", " ", "(", "m", "^3", "/", "h", "a", ")">>
col_vt_st == <<"V", "T", " ", "(", "s", "t", "/", "h", "a", ")">>

CanonicalNames == <<col_tree, col_comum, col_cientifico, col_cap, col_ht>>

-----------------------------------------------------------------------------
(* Cells and DataFrames *)

NullCell == [k |-> "null", s |-> "", v |-> 0]
StrCell(x) == [k |-> "str", s |-> x, v |-> 0]
NumCell(n) == [k |-> "num", s |-> "", v |-> n]

IsNa(c) == c.k = "null"

\* astype(str) on one cell: NaN renders as "nan", a whole number as its digits
AsTypeStr(c) ==
    CASE c.k = "null" -> "nan"
      [] c.k = "str" -> c.s
      [] c.k = "num" -> ToString(c.v)

NRows(df) == Len(df.rows)
HasCol(df, name) == InSeq(name, df.cols)
ColIdx(df, name) == CHOOSE i \in 1..Len(df.cols) :
                        df.cols[i] = name /\ \A j \in 1..(i - 1) : df.cols[j] # name
\* df[name] as the sequence of its cells
Column(df, name) == [r \in 1..NRows(df) |-> df.rows[r][ColIdx(df, name)]]

\* df[name] = values: overwrite the column when it exists, else append it
SetColumn(df, name, values) ==
    IF HasCol(df, name)
    THEN [df EXCEPT !.rows = [r \in 1..NRows(df) |->
                                [df.rows[r] EXCEPT ![ColIdx(df, name)] = values[r]]]]
    ELSE [cols |-> Append(df.cols, name),
          rows |-> [r \in 1..NRows(df) |-> Append(df.rows[r], values[r])],
          index |-> df.index]

\* df[mask]: the rows r with keep[r], in order
FilterRows(df, keep) ==
    LET idx == SelectIdx(keep, 1, NRows(df))
    IN [cols |-> df.cols,
        rows |-> [j \in 1..Len(idx) |-> df.rows[idx[j]]],
        index |-> [j \in 1..Len(idx) |-> df.index[idx[j]]]]

-----------------------------------------------------------------------------
(* Column Normalizer: detect_and_map_columns (src/app.py) *)

\* the five detection rules, each the condition of one branch without its
\* "not in used_mappings" part
RuleTree(col_upper) ==
    Contains(col_upper, kw_N_DEG)
        \/ col_upper \in {kw_N, kw_NO, kw_NUM, kw_NUMERO, kw_NUMERO_ACUTE}
RuleComum(col_upper) == Contains(col_upper, kw_NOME) /\ Contains(col_upper, kw_COMUM)
RuleCientifico(col_upper) ==
    Contains(col_upper, kw_NOME)
        /\ (Contains(col_upper, kw_CIENTIFICO_ACUTE) \/ Contains(col_upper, kw_CIENTIFICO))
RuleCap(col_upper) == Contains(col_upper, kw_CAP)
RuleHt(col_upper) == Contains(col_upper, kw_HT) \/ Contains(col_upper, kw_ALTURA)

\* whether a header (already stripped and upper-cased) matches the rule of a canonical name
MatchesRule(canonical, col_upper) ==
    CASE canonical = col_tree -> RuleTree(col_upper)
      [] canonical = col_comum -> RuleComum(col_upper)
      [] canonical = col_cientifico -> RuleCientifico(col_upper)
      [] canonical = col_cap -> RuleCap(col_upper)
      [] canonical = col_ht -> RuleHt(col_upper)

\* faulty variant of MappedName: the branches without their "not in used_mappings" test
MappedName_IgnoreUsed(col_upper, used_mappings) ==
    IF RuleTree(col_upper) THEN Some(col_tree)
    ELSE IF RuleComum(col_upper) THEN Some(col_comum)
    ELSE IF RuleCientifico(col_upper) THEN Some(col_cientifico)
    ELSE IF RuleCap(col_upper) THEN Some(col_cap)
    ELSE IF RuleHt(col_upper) THEN Some(col_ht)
    ELSE None

\* the if/elif chain of the loop body: Some(canonical name) or None
MappedName(col_upper, used_mappings) ==
    IF RuleTree(col_upper) /\ col_tree \notin used_mappings THEN Some(col_tree)
    ELSE IF RuleComum(col_upper) /\ col_comum \notin used_mappings THEN Some(col_comum)
    ELSE IF RuleCientifico(col_upper) /\ col_cientifico \notin used_mappings
        THEN Some(col_cientifico)
    ELSE IF RuleCap(col_upper) /\ col_cap \notin used_mappings THEN Some(col_cap)
    ELSE IF RuleHt(col_upper) /\ col_ht \notin used_mappings THEN Some(col_ht)
    ELSE None

RECURSIVE UniqueName(_, _, _, _)
\* the "while base_name in new_columns" loop
UniqueName(original_col, base_name, counter, new_columns) ==
    IF InSeq(base_name, new_columns)
    THEN UniqueName(original_col, original_col \o <<"_">> \o DecimalStr(counter),
                    counter + 1, new_columns)
    ELSE base_name

RECURSIVE MapLoop(_, _, _, _, _)
\* "for i, col in enumerate(df.columns)": the new column names, and for each
\* column (original_col, mapped_name, retained?) as written to mapping_results
MapLoop(columns, i, new_columns, used_mappings, mapping_results) ==
    IF i > Len(columns)
    THEN [new_columns |-> new_columns, mapping_results |-> mapping_results]
    ELSE LET original_col == Strip(columns[i])
             col_upper == StrUpper(original_col)
             hit == MappedName(col_upper, used_mappings)
             mapped_name == IF IsNone(hit)
                            THEN UniqueName(original_col, original_col, 1, new_columns)
                            ELSE Get(hit)
         IN MapLoop(columns, i + 1,
                    Append(new_columns, mapped_name),
                    IF IsNone(hit) THEN used_mappings ELSE used_mappings \cup {Get(hit)},
                    Append(mapping_results,
                           [original_col |-> original_col,
                            mapped_name |-> mapped_name,
                            retained |-> IsNone(hit)]))

\* faulty variant of CompositeColumn: with both name columns the composite is the common name alone
CompositeColumn_CommonOnly(df) ==
    IF HasCol(df, col_comum) THEN SetColumn(df, col_composite, Column(df, col_comum))
    ELSE IF HasCol(df, col_cientifico)
        THEN SetColumn(df, col_composite, Column(df, col_cientifico))
    ELSE df

\* "Criar coluna combinada de nomes se necessario"
CompositeColumn(df) ==
    IF HasCol(df, col_comum) /\ HasCol(df, col_cientifico)
    THEN SetColumn(df, col_composite,
                   [r \in 1..NRows(df) |->
                      StrCell(AsTypeStr(Column(df, col_comum)[r]) \o " / "
                                \o AsTypeStr(Column(df, col_cientifico)[r]))])
    ELSE IF HasCol(df, col_comum)
        THEN SetColumn(df, col_composite, Column(df, col_comum))
    ELSE IF HasCol(df, col_cientifico)
        THEN SetColumn(df, col_composite, Column(df, col_cientifico))
    ELSE df

\* the renaming part: df.columns = df.columns.str.strip(), the loop, df.columns = new_columns
RenameColumns(df) ==
    MapLoop([i \in 1..Len(df.cols) |-> Strip(df.cols[i])], 1, <<>>, {}, <<>>)

detect_and_map_columns(df) ==
    CompositeColumn([cols |-> RenameColumns(df).new_columns,
                     rows |-> df.rows, index |-> df.index])

-----------------------------------------------------------------------------
(* Numbers.  Quantities are fixed-point integers:                          *)
(*   CAP in cm, HT in m (the sampled measurements are whole numbers);      *)
(*   DAP, VT, VT/ha, VT st/ha and the statistics in units of 10^-4 (the    *)
(*   4 decimals the code rounds to); per-plot VT and HT means in 10^-2;    *)
(*   cv and sampling_error in 10^-2 (round(x, 2));                         *)
(*   form_factor in tenths; plot_area in square metres (ha * 10000).       *)
(* NaN is NullCell.                                                        *)

\* a / b rounded to the nearest integer, ties to even (a >= 0, b > 0)
RoundDiv(a, b) ==
    LET q == a \div b
        r == a % b
    IN IF 2 * r > b \/ (2 * r = b /\ q % 2 = 1) THEN q + 1 ELSE q

RECURSIVE SqrtSearch(_, _, _)
\* the largest r in lo..hi with r * r <= n
SqrtSearch(n, lo, hi) ==
    IF lo >= hi THEN lo
    ELSE LET mid == (lo + hi + 1) \div 2
         IN IF mid * mid <= n THEN SqrtSearch(n, mid, hi) ELSE SqrtSearch(n, lo, mid - 1)

\* sqrt(n) rounded to the nearest integer
RoundSqrt(n) ==
    LET r == SqrtSearch(n, 0, 46340)
    IN IF n - r * r > r THEN r + 1 ELSE r

\* calculate_dap: DAP = CAP / pi, in 10^-4 cm (pi as 355/113)
calculate_dap(cap) == RoundDiv(cap * 10000 * 113, 355)

\* calculate_tree_volume(calculate_dap(cap), ht) =
\*   0.000094 * (cap/pi)^1.830398 * ht^0.960913, in 10^-8 m3, for the sampled
\*   measurements (values of the formula in double precision)
calculate_tree_volume(cap, ht) ==
    CASE cap = 0 \/ ht = 0 -> 0
      [] cap = 31 /\ ht = 10 -> 5673410
      [] cap = 31 /\ ht = 15 -> 8376307
      [] cap = 63 /\ ht = 10 -> 20776293
      [] cap = 63 /\ ht = 15 -> 30674426

\* calculate_volume_per_hectare: (VT / FF) / plot_area_ha, in 10^-4 m3/ha
calculate_volume_per_hectare(tree_volume, form_factor, plot_area) ==
    RoundDiv(tree_volume * 10, form_factor * plot_area)

\* calculate_stereo_volume of the unrounded per-hectare volume: * 2.65, in 10^-4 st/ha
calculate_stereo_volume(tree_volume, form_factor, plot_area) ==
    RoundDiv(tree_volume * 53, 2 * form_factor * plot_area)

\* sampled arguments of calculate_tree_volume in ascending order, each the
\* double of a measurement advanced by 0 or 1 unit in the last place:
\* <<c, u>> is the DAP of a CAP of c cm (c / pi), <<t, u>> a height of t / 10 m
DapSamples == << <<3, 0>>, <<3, 1>>, <<11, 0>>, <<11, 1>>, <<23, 0>>, <<23, 1>>,
                 <<31, 0>>, <<31, 1>>, <<63, 0>>, <<63, 1>> >>
HtSamples == << <<55, 0>>, <<55, 1>>, <<60, 0>>, <<60, 1>>, <<100, 0>>, <<100, 1>>,
                <<150, 0>>, <<150, 1>>, <<155, 0>>, <<155, 1>> >>

\* the doubles 0.000094 * (dap ** 1.830398) * (ht ** 0.960913) of the samples,
\* each given by its rank among the 64 distinct doubles of the table: two
\* entries compare as the doubles do
VolumeRank ==
  << <<1, 2, 3, 4, 5, 6, 7, 8, 9, 10>>,
     <<1, 2, 3, 4, 5, 6, 7, 8, 9, 10>>,
     <<11, 12, 14, 15, 17, 18, 19, 20, 22, 23>>,
     <<12, 13, 15, 16, 17, 18, 20, 21, 23, 24>>,
     <<25, 26, 28, 29, 33, 34, 37, 37, 39, 39>>,
     <<26, 27, 29, 30, 33, 34, 37, 38, 39, 40>>,
     <<31, 31, 35, 35, 41, 42, 44, 45, 46, 46>>,
     <<31, 32, 35, 36, 42, 43, 45, 45, 46, 47>>,
     <<48, 49, 52, 52, 54, 55, 58, 59, 62, 63>>,
     <<50, 51, 53, 53, 56, 57, 60, 61, 64, 64>> >>

\* faulty variant of calculate_tree_volume_f64: the height is not used
calculate_tree_volume_f64_NoHeight(i, j) == VolumeRank[i][1]

\* calculate_tree_volume(dap_cm, ht) in double precision, for dap_cm the i-th
\* DAP sample and ht the j-th height sample
calculate_tree_volume_f64(i, j) == VolumeRank[i][j]

\* faulty variant of to_numeric: text is never parsed
to_numeric_NoText(c) == IF c.k = "num" THEN c ELSE NullCell

\* pd.to_numeric(errors='coerce') on one cell: a number stays, numeric text
\* parses, any other text becomes NaN
NumericText == [x \in {"31", "10"} |-> IF x = "31" THEN 31 ELSE 10]
to_numeric(c) ==
    CASE c.k = "num" -> c
      [] c.k = "null" -> NullCell
      [] c.k = "str" -> IF c.s \in DOMAIN NumericText THEN NumCell(NumericText[c.s])
                        ELSE NullCell

-----------------------------------------------------------------------------
(* Volume Calculator: ForestryCalculator (src/utils/calculations.py) *)

old_N_DEG == <<"N", "deg">>
old_NOME_COMUM == <<"N", "O", "M", "E", " ", "C", "O", "M", "U", "M">>
old_NOME_CIENTIFICO == <<"N", "O", "M", "E", " ", "C", "I", "E", "N", "T", "I'", "F", "I", "C", "O">>
old_CAP == <<"C", "A", "P", " ", "(", "c", "m", ")">>
old_HT == <<"H", "T", "(", "m", ")">>
old_ALTURA_HT == <<"A", "l", "t", "u", "r", "a", " ", "t", "o", "t", "a", "l", " ", "H", "T", "(", "m", ")">>

column_mapping == << <<old_N_DEG, col_tree>>,
                     <<old_NOME_COMUM, col_composite>>,
                     <<old_NOME_CIENTIFICO, col_cientifico>>,
                     <<old_CAP, col_cap>>,
                     <<old_HT, col_ht>>,
                     <<old_ALTURA_HT, col_ht>> >>

\* df.rename(columns={old_name: new_name})
Rename(df, old_name, new_name) ==
    [df EXCEPT !.cols = [i \in 1..Len(df.cols) |->
                           IF df.cols[i] = old_name THEN new_name ELSE df.cols[i]]]

RECURSIVE RenameAll(_, _)
RenameAll(df, i) ==
    IF i > Len(column_mapping) THEN df
    ELSE RenameAll(Rename(df, column_mapping[i][1], column_mapping[i][2]), i + 1)

apply_column_mapping(df0) ==
    LET df == RenameAll(df0, 1)
    IN IF ~HasCol(df, col_composite)
       THEN IF HasCol(df, old_NOME_COMUM) /\ HasCol(df, old_NOME_CIENTIFICO)
            THEN SetColumn(df, col_composite,
                     [r \in 1..NRows(df) |->
                        StrCell(AsTypeStr(Column(df, old_NOME_COMUM)[r]) \o " / "
                                  \o AsTypeStr(Column(df, old_NOME_CIENTIFICO)[r]))])
            ELSE IF HasCol(df, old_NOME_COMUM)
                THEN SetColumn(df, col_composite, Column(df, old_NOME_COMUM))
            ELSE IF HasCol(df, old_NOME_CIENTIFICO)
                THEN SetColumn(df, col_composite, Column(df, old_NOME_CIENTIFICO))
            ELSE df
       ELSE df

CountCol(df, name) == Cardinality({i \in 1..Len(df.cols) : df.cols[i] = name})

\* results_df[required_columns].isna().any(axis=1)
IsNaAny(df) == [r \in 1..NRows(df) |->
                  IsNa(Column(df, col_cap)[r]) \/ IsNa(Column(df, col_ht)[r])]

\* faulty variant of DropNa: dropna(how='all'), which drops a row only when CAP and HT are both missing
DropNa_All(df) ==
    FilterRows(df, [r \in 1..NRows(df) |->
                      ~(IsNa(Column(df, col_cap)[r]) /\ IsNa(Column(df, col_ht)[r]))])

\* results_df.dropna(subset=['CAP (cm)', 'HT (m)'])
DropNa(df) == FilterRows(df, [r \in 1..NRows(df) |-> ~IsNaAny(df)[r]])

\* the report of tree numbers: df['N. da arvore'].tolist() when that column exists
TreeNumbers(df) == IF HasCol(df, col_tree) THEN Some(Column(df, col_tree)) ELSE None

\* the four derived columns, each rounded to 4 decimals
DerivedColumns(df, form_factor, plot_area) ==
    LET cap == [r \in 1..NRows(df) |-> Column(df, col_cap)[r].v]
        ht == [r \in 1..NRows(df) |-> Column(df, col_ht)[r].v]
        vt == [r \in 1..NRows(df) |-> calculate_tree_volume(cap[r], ht[r])]
        d1 == SetColumn(df, col_dap, [r \in 1..NRows(df) |-> NumCell(calculate_dap(cap[r]))])
        d2 == SetColumn(d1, col_vt, [r \in 1..NRows(df) |-> NumCell(RoundDiv(vt[r], 10000))])
        d3 == SetColumn(d2, col_vt_ha,
                  [r \in 1..NRows(df) |->
                     NumCell(calculate_volume_per_hectare(vt[r], form_factor, plot_area))])
    IN SetColumn(d3, col_vt_st,
                  [r \in 1..NRows(df) |->
                     NumCell(calculate_stereo_volume(vt[r], form_factor, plot_area))])

\* raise ValueError(f"Required column '{col}' not found in data")
RequiredColumnError == "ValueError: Required column not found in data"

\* the rows st.dataframe(....head(10)) shows of the rows to be removed
PreviewRows == 10

\* .head(n) of a list of index labels
DfHead(idx, n) == SubSeq(idx, 1, IF Len(idx) < n THEN Len(idx) ELSE n)

\* what process_data writes about the rows it removes: the index labels of the
\* rows with a missing value (empty_rows) and of the rows the coercion
\* emptied (invalid_rows), the labels of their previews, and their tree numbers
NoReport == [initial_count |-> 0, empty_rows |-> <<>>, empty_numbers |-> None,
             empty_preview |-> <<>>, invalid_rows |-> <<>>, invalid_numbers |-> None,
             invalid_preview |-> <<>>, final_count |-> 0]

\* process_data: [raised, df, report]; raised = "" when it returns df
process_data(df, form_factor, plot_area) ==
    LET initial_count == NRows(df)
        mapped == apply_column_mapping(df)
    IN IF ~HasCol(mapped, col_cap) \/ ~HasCol(mapped, col_ht)
       THEN [raised |-> RequiredColumnError,
             df |-> mapped, report |-> NoReport]
       ELSE IF CountCol(mapped, col_cap) > 1 \/ CountCol(mapped, col_ht) > 1
       THEN \* results_df['CAP (cm)'] is then a DataFrame: the truth test of
            \* line 95 or pd.to_numeric of lines 117-118 raises
            [raised |-> "pandas error: duplicate column",
             df |-> mapped, report |-> NoReport]
       ELSE
        LET empty_rows == FilterRows(mapped, IsNaAny(mapped))
            after_dropna == DropNa(mapped)
            numeric == SetColumn(
                         SetColumn(after_dropna, col_cap,
                            [r \in 1..NRows(after_dropna) |->
                               to_numeric(Column(after_dropna, col_cap)[r])]),
                         col_ht,
                            [r \in 1..NRows(after_dropna) |->
                               to_numeric(Column(after_dropna, col_ht)[r])])
            invalid_rows == FilterRows(numeric, IsNaAny(numeric))
            after_numeric == DropNa(numeric)
            report == [initial_count |-> initial_count,
                       empty_rows |-> empty_rows.index,
                       empty_numbers |-> IF NRows(empty_rows) > 0
                                         THEN TreeNumbers(empty_rows) ELSE None,
                       empty_preview |-> DfHead(empty_rows.index, PreviewRows),
                       invalid_rows |-> invalid_rows.index,
                       invalid_preview |-> DfHead(invalid_rows.index, PreviewRows),
                       invalid_numbers |-> IF NRows(invalid_rows) > 0
                                           THEN TreeNumbers(invalid_rows) ELSE None,
                       final_count |-> NRows(after_numeric)]
        IN IF CountCol(mapped, col_tree) > 1
              /\ (NRows(empty_rows) > 0 \/ NRows(invalid_rows) > 0)
           THEN \* empty_rows['N. da arvore'] is a DataFrame: no .tolist()
                [raised |-> "pandas error: duplicate column",
                 df |-> mapped, report |-> NoReport]
           ELSE [raised |-> "",
                 df |-> DerivedColumns(after_numeric, form_factor, plot_area),
                 report |-> report]

\* results_df.apply(lambda row: ..., axis=1) on a table left without rows
\* returns an empty Series or, in other pandas versions, a copy of the empty
\* frame, which "results_df['VT (m3)'] = ..." refuses with a ValueError
EmptyApplyError == "ValueError: cannot set a DataFrame to a single column"

\* the outcomes of one call of process_data
process_data_runs(df, form_factor, plot_area) ==
    LET run == process_data(df, form_factor, plot_area)
    IN IF run.raised = "" /\ NRows(run.df) = 0
       THEN {run, [raised |-> EmptyApplyError, df |-> run.df, report |-> NoReport]}
       ELSE {run}

-----------------------------------------------------------------------------
(* Grouping helpers (pandas groupby / value_counts: rows with a null key    *)
(* are left out, groups come in ascending key order)                        *)

\* sort order of the sampled text values
SortedText == <<"a", "b", "x", "y">>
CellRank(c) == IF c.k = "num" THEN c.v
               ELSE CHOOSE i \in 1..Len(SortedText) : SortedText[i] = c.s

RECURSIVE SortCells(_)
\* the cells of a finite set in ascending order
SortCells(S) ==
    IF S = {} THEN <<>>
    ELSE LET m == CHOOSE c \in S : \A d \in S : CellRank(c) <= CellRank(d)
         IN <<m>> \o SortCells(S \ {m})

\* the group keys of df.groupby(column i), default dropna=True
GroupKeys(df, i) == SortCells({df.rows[r][i] : r \in 1..NRows(df)} \ {NullCell})

\* the row positions of one group, in table order
GroupRows(df, i, key) ==
    SelectIdx([r \in 1..NRows(df) |-> df.rows[r][i] = key], 1, NRows(df))

RECURSIVE FirstTrue(_, _)
\* the first position >= i whose flag is set, or None ("for col in columns: if ...: break")
FirstTrue(flags, i) ==
    IF i > Len(flags) THEN None
    ELSE IF flags[i] THEN Some(i)
    ELSE FirstTrue(flags, i + 1)

IsPlotHeader(col_upper) ==
    Contains(col_upper, kw_UA) \/ Contains(col_upper, kw_PARCELA)
        \/ Contains(col_upper, kw_UNIDADE)

IsSpeciesHeader(col_upper) ==
    Contains(col_upper, kw_NOME_COMUM) \/ Contains(col_upper, kw_ESPECIE)
        \/ Contains(col_upper, kw_SPECIES) \/ Contains(col_upper, kw_NOME_CIENTIFICO)

\* "Identificar coluna UA/Parcela" (app.py and statistics.py alike)
ua_column(df) ==
    FirstTrue([i \in 1..Len(df.cols) |-> IsPlotHeader(StrUpper(df.cols[i]))], 1)

\* "Identificar coluna de especie"
species_column(df) ==
    FirstTrue([i \in 1..Len(df.cols) |-> IsSpeciesHeader(StrUpper(df.cols[i]))], 1)

\* the numbers of a numeric column at the given row positions
Values(df, name, idx) == [j \in 1..Len(idx) |-> Column(df, name)[idx[j]].v]

-----------------------------------------------------------------------------
(* Plot Aggregator (src/app.py) *)

\* one row of plot_data for the trees at positions idx (non-empty); 'Parcela'
\* is str() of the label, kept here as the label itself
PlotRow(df, label, idx) ==
    [Parcela |-> label,
     DAP_medio |-> NumCell(RoundDiv(SumSeq(Values(df, col_dap, idx)), Len(idx))),
     HT_media |-> NumCell(RoundDiv(SumSeq(Values(df, col_ht, idx)) * 100, Len(idx))),
     VT |-> NumCell(RoundDiv(SumSeq(Values(df, col_vt, idx)), 100)),
     trees |-> idx]

\* "Adicionar linha de total"
WithTotalRow(plot_stats) ==
    IF plot_stats # <<>>
    THEN Append(plot_stats,
                [Parcela |-> StrCell("Total"), DAP_medio |-> NullCell,
                 HT_media |-> NullCell,
                 VT |-> NumCell(SumSeq([i \in 1..Len(plot_stats) |-> plot_stats[i].VT.v])),
                 trees |-> <<>>])
    ELSE plot_stats

RECURSIVE FallbackBounds_RestToLast(_, _, _, _)
\* faulty variant of FallbackBounds: every plot gets total_trees // num_plots
\* rows and the last plot takes the remainder as well
FallbackBounds_RestToLast(total_trees, num_plots, plot_num, start_idx) ==
    IF plot_num > num_plots THEN <<>>
    ELSE LET trees_per_plot == total_trees \div num_plots
             end_idx == IF plot_num = num_plots THEN total_trees
                        ELSE start_idx + trees_per_plot
         IN <<[start |-> start_idx, end |-> end_idx]>>
              \o FallbackBounds_RestToLast(total_trees, num_plots, plot_num + 1, end_idx)

RECURSIVE FallbackBounds(_, _, _, _)
\* the loop of calculate_plot_averages_fallback: for plot_num = 1..num_plots
\* the slice [start_idx, end_idx) of row positions (0-based, end exclusive)
FallbackBounds(total_trees, num_plots, plot_num, start_idx) ==
    IF plot_num > num_plots THEN <<>>
    ELSE LET trees_per_plot == total_trees \div num_plots
             remaining_trees == total_trees % num_plots
             trees_in_this_plot == IF plot_num <= remaining_trees
                                   THEN trees_per_plot + 1 ELSE trees_per_plot
             end_idx == start_idx + trees_in_this_plot
         IN <<[start |-> start_idx, end |-> end_idx]>>
              \o FallbackBounds(total_trees, num_plots, plot_num + 1, end_idx)

\* row positions (1-based) of results_df.iloc[start:end]
ILoc(df, start, end) ==
    LET hi == IF end > NRows(df) THEN NRows(df) ELSE end
    IN [j \in 1..(IF hi > start THEN hi - start ELSE 0) |-> start + j]

RECURSIVE FallbackRows(_, _, _)
FallbackRows(df, bounds, plot_num) ==
    IF plot_num > Len(bounds) THEN <<>>
    ELSE LET plot_trees == ILoc(df, bounds[plot_num].start, bounds[plot_num].end)
         IN (IF Len(plot_trees) > 0
             THEN <<PlotRow(df, NumCell(plot_num), plot_trees)>> ELSE <<>>)
              \o FallbackRows(df, bounds, plot_num + 1)

calculate_plot_averages_fallback(df, info) ==
    WithTotalRow(FallbackRows(df, FallbackBounds(NRows(df), info.num_plots, 1, 0), 1))

calculate_plot_averages_table(df, info) ==
    IF IsNone(ua_column(df)) THEN calculate_plot_averages_fallback(df, info)
    ELSE LET ua == Get(ua_column(df))
             keys == GroupKeys(df, ua)
         IN WithTotalRow([g \in 1..Len(keys) |->
                             PlotRow(df, keys[g], GroupRows(df, ua, keys[g]))])

-----------------------------------------------------------------------------
(* Species Aggregator (src/app.py) *)

\* "if not species_column or results_df[species_column].isna().all()"
NoSpecies(df) ==
    IsNone(species_column(df))
        \/ \A r \in 1..NRows(df) : IsNa(df.rows[r][Get(species_column(df))])

RECURSIVE DescOrder(_, _)
\* the positions of `keys` among `left` in descending key order; positions with
\* equal keys keep their order here (pandas does not promise an order for them)
DescOrder(keys, left) ==
    IF left = {} THEN <<>>
    ELSE LET m == CHOOSE i \in left :
                    /\ \A j \in left : keys[j] <= keys[i]
                    /\ \A j \in left : j < i => keys[j] < keys[i]
         IN <<m>> \o DescOrder(keys, left \ {m})

\* faulty variant of SortDesc: the rows stay in group order
SortDesc_Unsorted(rows, keys) == rows

\* rows.sort_values(by, ascending=False), keys[i] being the sort value of rows[i]
SortDesc(rows, keys) ==
    LET order == DescOrder(keys, 1..Len(rows))
    IN [j \in 1..Len(rows) |-> rows[order[j]]]

\* n_trees_plot is the count behind n/ha (the column itself is not in final_columns)
calculate_species_volume_summary(df, info) ==
    IF NoSpecies(df) THEN <<>>
    ELSE LET sp == Get(species_column(df))
             keys == GroupKeys(df, sp)
             Group(key) ==
                LET idx == GroupRows(df, sp, key)
                IN [Especie |-> key,
                    n_trees_plot |-> Len(idx),
                    n_ha |-> RoundDiv(Len(idx) * 100000000, info.plot_area * info.num_plots),
                    DAP_medio |-> RoundDiv(SumSeq(Values(df, col_dap, idx)), Len(idx)),
                    Altura_media |-> RoundDiv(SumSeq(Values(df, col_ht, idx)) * 10000, Len(idx)),
                    Soma_VT |-> SumSeq(Values(df, col_vt, idx)),
                    VT_ha |-> SumSeq(Values(df, col_vt_ha, idx))]
             groups == [g \in 1..Len(keys) |-> Group(keys[g])]
         IN SortDesc(groups, [g \in 1..Len(keys) |-> groups[g].VT_ha])

\* faulty variant of calculate_species_count_table: only the header is
\* tested and the missing names are counted as a species of their own
calculate_species_count_table_KeepNa(df) ==
    IF IsNone(species_column(df)) THEN <<>>
    ELSE LET sp == Get(species_column(df))
             keys == GroupKeys(df, sp)
                       \o (IF \E r \in 1..NRows(df) : df.rows[r][sp] = NullCell
                           THEN <<NullCell>> ELSE <<>>)
             counts == [g \in 1..Len(keys) |->
                          [Especie |-> keys[g],
                           Quantidade |-> Len(GroupRows(df, sp, keys[g]))]]
         IN SortDesc(counts, [g \in 1..Len(keys) |-> counts[g].Quantidade])

calculate_species_count_table(df) ==
    IF NoSpecies(df) THEN <<>>
    ELSE LET sp == Get(species_column(df))
             keys == GroupKeys(df, sp)
             counts == [g \in 1..Len(keys) |->
                          [Especie |-> keys[g],
                           Quantidade |-> Len(GroupRows(df, sp, keys[g]))]]
         IN SortDesc(counts, [g \in 1..Len(keys) |-> counts[g].Quantidade])

-----------------------------------------------------------------------------
(* Sampling Statistics Engine: StatisticsAnalyzer (src/utils/statistics.py) *)

\* the fallback slices of calculate_statistics: for i = 0..num_plots-1 the
\* slice [start_idx, end_idx) (0-based, end exclusive); the last takes the rest
StatBounds(total_trees, num_plots) ==
    LET trees_per_plot == total_trees \div num_plots
    IN [k \in 1..num_plots |->
          [start |-> (k - 1) * trees_per_plot,
           end |-> IF k = num_plots THEN total_trees
                   ELSE (k - 1) * trees_per_plot + trees_per_plot]]

\* volume_data: the per-plot sums of 'VT (m3/ha)'
plot_volumes(df, info) ==
    IF ~IsNone(ua_column(df))
    THEN LET ua == Get(ua_column(df))
             keys == GroupKeys(df, ua)
         IN [g \in 1..Len(keys) |->
               SumSeq(Values(df, col_vt_ha, GroupRows(df, ua, keys[g])))]
    ELSE LET bounds == StatBounds(NRows(df), info.num_plots)
         IN [k \in 1..info.num_plots |->
               SumSeq(Values(df, col_vt_ha, ILoc(df, bounds[k].start, bounds[k].end)))]

\* calculate_suppression_volume_table: the 'Volume (m3/ha)' cell, the sum of
\* 'VT (m3/ha)' over all rows of the processed table (10^-4 m3/ha)
total_volume_m3_ha(df) ==
    SumSeq([r \in 1..NRows(df) |-> Column(df, col_vt_ha)[r].v])

\* stats.t.ppf(0.95, df), in 10^-4; NaN when df < 1
t_ppf_95 == <<63138, 29200, 23534, 21318, 20150, 19432, 18946, 18595>>
t_critical_of(n) == IF n - 1 >= 1 THEN NumCell(t_ppf_95[n - 1]) ELSE NullCell

RECURSIVE SortInts(_)
SortInts(xs) ==
    IF xs = <<>> THEN <<>>
    ELSE LET m == CHOOSE i \in 1..Len(xs) : \A j \in 1..Len(xs) : xs[i] <= xs[j]
         IN <<xs[m]>> \o SortInts(SubSeq(xs, 1, m - 1) \o SubSeq(xs, m + 1, Len(xs)))

Median(xs) ==
    LET srt == SortInts(xs)
        n == Len(xs)
    IN IF n % 2 = 1 THEN srt[(n + 1) \div 2]
       ELSE RoundDiv(srt[n \div 2] + srt[n \div 2 + 1], 2)

\* the statistics of the sample xs (10^-4 m3/ha each); the divisions are done
\* on exact integers and rounded once, where the code works in double precision
SampleStatistics(xs, info) ==
    LET n == Len(xs)
        S == SumSeq(xs)
        Q == SumSeq([i \in 1..n |-> xs[i] * xs[i]])
        SS == n * Q - S * S              \* n^2 (n-1) * variance
        defined == n >= 2                 \* var(ddof=1) is NaN for n < 2
        mean == IF n >= 1 THEN NumCell(RoundDiv(S, n)) ELSE NullCell
        mean_is_zero == n >= 1 /\ S = 0   \* "mean != 0" is true of NaN
        variance == IF defined THEN NumCell(RoundDiv(SS, n * (n - 1) * 10000)) ELSE NullCell
        std == IF defined THEN RoundSqrt(RoundDiv(SS, n * (n - 1))) ELSE 0
        se == IF defined THEN RoundSqrt(RoundDiv(SS, n * n * (n - 1))) ELSE 0
        t_critical == t_critical_of(n)
        margin == IF defined THEN RoundDiv(t_critical.v * se, 10000) ELSE 0
    IN [n_trees |-> n,
        mean |-> mean,
        variance |-> variance,
        std_dev |-> IF defined THEN NumCell(std) ELSE NullCell,
        cv |-> IF mean_is_zero THEN NumCell(0)
               ELSE IF defined THEN NumCell(RoundDiv(std * 10000 * n, S)) ELSE NullCell,
        standard_error |-> IF defined THEN NumCell(se) ELSE NullCell,
        ci_lower |-> IF defined THEN NumCell(mean.v - margin) ELSE NullCell,
        ci_upper |-> IF defined THEN NumCell(mean.v + margin) ELSE NullCell,
        sampling_error |-> IF mean_is_zero THEN NumCell(0)
                           ELSE IF defined THEN NumCell(RoundDiv(margin * 10000 * n, S))
                           ELSE NullCell,
        minimum |-> IF n >= 1 THEN NumCell(SortInts(xs)[1]) ELSE NullCell,
        maximum |-> IF n >= 1 THEN NumCell(SortInts(xs)[n]) ELSE NullCell,
        median |-> IF n >= 1 THEN NumCell(Median(xs)) ELSE NullCell,
        t_critical |-> t_critical,
        margin_of_error |-> IF defined THEN NumCell(margin) ELSE NullCell,
        expansion_factor |-> NumCell(RoundDiv(info.total_area * 100000000,
                                              info.plot_area * info.num_plots)),
        confidence_level |-> 90]

\* faulty variant of calculate_statistics: the sample is the trees, not the plots
calculate_statistics_PerTree(df, info) ==
    SampleStatistics(Values(df, col_vt_ha, [r \in 1..NRows(df) |-> r]), info)

\* faulty variant of calculate_statistics: cv and sampling_error are divided
\* by the mean without the "if mean != 0" guard and are undefined for a zero mean
calculate_statistics_NoGuard(df, info) ==
    LET st == SampleStatistics(plot_volumes(df, info), info)
    IN IF SumSeq(plot_volumes(df, info)) = 0
       THEN [st EXCEPT !.cv = NullCell, !.sampling_error = NullCell]
       ELSE st

\* the per-hectare total of the trees at positions idx, summed before any
\* rounding and rounded once to 10^-4
UnroundedTotal(df, info, idx) ==
    RoundDiv(10 * SumSeq([j \in 1..Len(idx) |->
                            calculate_tree_volume(Column(df, col_cap)[idx[j]].v,
                                                  Column(df, col_ht)[idx[j]].v)]),
             info.form_factor * info.plot_area)

\* faulty variant of calculate_statistics: the per-plot totals are summed from
\* the unrounded per-tree volumes per hectare
calculate_statistics_Unrounded(df, info) ==
    SampleStatistics(
        IF ~IsNone(ua_column(df))
        THEN LET ua == Get(ua_column(df))
                 keys == GroupKeys(df, ua)
             IN [g \in 1..Len(keys) |-> UnroundedTotal(df, info, GroupRows(df, ua, keys[g]))]
        ELSE LET bounds == StatBounds(NRows(df), info.num_plots)
             IN [k \in 1..info.num_plots |->
                   UnroundedTotal(df, info, ILoc(df, bounds[k].start, bounds[k].end))],
        info)

calculate_statistics(df, info) == SampleStatistics(plot_volumes(df, info), info)

\* the precision alert of statistics_tab: "statistics['sampling_error'] > 20"
\* (a comparison with NaN is false)
precision_alert(stats) == stats.sampling_error.k = "num" /\ stats.sampling_error.v > 2000

\* the precision paragraph of report_tab: the same test as in statistics_tab
report_precision_alert(stats) ==
    stats.sampling_error.k = "num" /\ stats.sampling_error.v > 2000

\* _create_project_info_sheet: the 'Precisao Atingida' cell is 'Sim' exactly
\* when "statistics['sampling_error'] <= 20" (false for NaN)
excel_precision_met(stats) ==
    stats.sampling_error.k = "num" /\ stats.sampling_error.v <= 2000

\* generate_pdf_report: the paragraph says the precision was met exactly when
\* "statistics['sampling_error'] <= 20" (false for NaN)
pdf_precision_met(stats) ==
    stats.sampling_error.k = "num" /\ stats.sampling_error.v <= 2000

\* f"{sampling_error:.2f}" for a whole percentage or NaN
FormatError(sampling_error) ==
    IF sampling_error.k = "num" THEN ToString(sampling_error.v) \o ".00" ELSE "nan"

Recommendation == "Recomendado aumentar o numero de parcelas."

\* _get_precision_message: the parts of the text (accents left out); both
\* texts quote 20% whatever the threshold of the call
get_precision_message(meets_precision, sampling_error) ==
    IF meets_precision
    THEN <<"Amostragem atingiu a precisao desejada (erro ",
           FormatError(sampling_error), "% <= 20%).">>
    ELSE <<"Amostragem nao atingiu a precisao desejada (erro ",
           FormatError(sampling_error), "% > 20%).", Recommendation>>

\* faulty variant of assess_sampling_precision: an error equal to the
\* threshold does not meet the precision
assess_sampling_precision_Strict(sampling_error, threshold) ==
    LET meets_precision == sampling_error.k = "num" /\ sampling_error.v < threshold
    IN [meets_precision |-> meets_precision,
        sampling_error |-> sampling_error,
        threshold |-> threshold,
        message |-> get_precision_message(meets_precision, sampling_error)]

\* sampling_error is a percentage or NaN (NullCell); "NaN <= threshold" is false
assess_sampling_precision(sampling_error, threshold) ==
    LET meets_precision == sampling_error.k = "num" /\ sampling_error.v <= threshold
    IN [meets_precision |-> meets_precision,
        sampling_error |-> sampling_error,
        threshold |-> threshold,
        message |-> get_precision_message(meets_precision, sampling_error)]

\* the least integer >= a / b, for a >= 0 and b > 0
CeilDiv(a, b) == (a + b - 1) \div b

\* the whole percentages (current_error, target_error, current_plots), among
\* those of the runs below with current_error <= 80, for which the double
\* current_plots * (current_error / target_error) ** 2 lies above its exact
\* value, an integer: 25 * (32 / 20) ** 2 is 64.00000000000001
DoubleAboveInteger ==
    {<<16, 10, 25>>, <<22, 10, 25>>, <<26, 10, 25>>, <<32, 10, 25>>, <<44, 10, 25>>,
     <<52, 10, 25>>, <<54, 10, 25>>, <<62, 10, 25>>, <<64, 10, 25>>, <<74, 10, 25>>,
     <<32, 20, 25>>, <<44, 20, 25>>, <<52, 20, 25>>, <<64, 20, 25>>,
     <<40, 25, 25>>, <<55, 25, 25>>, <<65, 25, 25>>, <<80, 25, 25>>}

\* a required-plots count cut down to an integer instead of raised to one
calculate_required_plots_Floor(current_error, target_error, current_plots) ==
    IF current_error <= target_error THEN current_plots
    ELSE (current_plots * current_error * current_error)
            \div (target_error * target_error)

\* calculate_required_plots for whole percentages and target_error > 0:
\* int(np.ceil(...)) of the double product
calculate_required_plots(current_error, target_error, current_plots) ==
    IF current_error <= target_error THEN current_plots
    ELSE CeilDiv(current_plots * current_error * current_error,
                 target_error * target_error)
         + (IF <<current_error, target_error, current_plots>> \in DoubleAboveInteger
            THEN 1 ELSE 0)

-----------------------------------------------------------------------------
(* The application: the session state and the handlers of upload_data_tab *)

\* no helper of StatisticsAnalyzer has been called
NoCall == [fn |-> "none", args |-> <<>>, result |-> None]

NoOutput == [run |-> "none", error |-> "", errors |-> {}, mapping_results |-> <<>>,
             report |-> NoReport]

\* main(): "Initialize session state"
SessionInit ==
    /\ data_processed = FALSE
    /\ results_df = None
    /\ statistics = None
    /\ project_info = None
    /\ file_uploaded = FALSE
    /\ input_data = None
    /\ st_out = NoOutput

\* faulty variant of ValidationErrors: the project name is not checked
ValidationErrors_NoName(w, uploaded, data) ==
    (IF w.num_plots < 1 THEN {"Quantidade de Parcelas deve ser pelo menos 1"} ELSE {})
    \cup (IF w.plot_length <= 0 \/ w.plot_width <= 0
          THEN {"Dimensoes da parcela devem ser positivas"} ELSE {})
    \cup (IF w.total_area <= 0 THEN {"Area total deve ser positiva"} ELSE {})
    \cup (IF ~(1 <= w.form_factor /\ w.form_factor <= 10)
          THEN {"Fator de Forma deve estar entre 0.1 e 1.0"} ELSE {})
    \cup (IF ~uploaded \/ IsNone(data) THEN {"Nenhum arquivo foi carregado"} ELSE {})

\* the checks behind the "Processar Dados" button
ValidationErrors(w, uploaded, data) ==
    (IF w.project_name = "" THEN {"Nome do Projeto e obrigatorio"} ELSE {})
    \cup (IF w.num_plots < 1 THEN {"Quantidade de Parcelas deve ser pelo menos 1"} ELSE {})
    \cup (IF w.plot_length <= 0 \/ w.plot_width <= 0
          THEN {"Dimensoes da parcela devem ser positivas"} ELSE {})
    \cup (IF w.total_area <= 0 THEN {"Area total deve ser positiva"} ELSE {})
    \cup (IF ~(1 <= w.form_factor /\ w.form_factor <= 10)
          THEN {"Fator de Forma deve estar entre 0.1 e 1.0"} ELSE {})
    \cup (IF ~uploaded \/ IsNone(data) THEN {"Nenhum arquivo foi carregado"} ELSE {})

\* "Store project information"
ProjectInfo(w) ==
    [project_name |-> w.project_name,
     num_plots |-> w.num_plots,
     plot_length |-> w.plot_length,
     plot_width |-> w.plot_width,
     plot_area |-> w.plot_length * w.plot_width,
     total_area |-> w.total_area,
     total_sampled_area |-> w.plot_length * w.plot_width * w.num_plots,
     sampling_percentage |-> RoundDiv(w.plot_length * w.plot_width * w.num_plots, w.total_area),
     form_factor |-> w.form_factor]

\* One run of the script with a file in the uploader and no button pressed:
\* the "if uploaded_file is not None" block of upload_data_tab.
UploadRun ==
    /\ ~IsNone(uploaded_file)
    /\ input_data' = Some(detect_and_map_columns(Get(uploaded_file)))
    /\ file_uploaded' = TRUE
    /\ st_out' = [NoOutput EXCEPT !.run = "upload",
                     !.mapping_results = RenameColumns(Get(uploaded_file)).mapping_results]
    /\ UNCHANGED <<uploaded_file, widgets, project_info, results_df, statistics,
                   data_processed, analysis>>

\* a button block that would set data_processed before calling process_data
ProcessClick_FlagFirst ==
    \E data \in {IF IsNone(uploaded_file) THEN input_data
                 ELSE Some(detect_and_map_columns(Get(uploaded_file)))} :
    \E mapping \in {IF IsNone(uploaded_file) THEN <<>>
                    ELSE RenameColumns(Get(uploaded_file)).mapping_results} :
    LET uploaded == IF IsNone(uploaded_file) THEN file_uploaded ELSE TRUE
        errors == ValidationErrors(widgets, uploaded, data)
        info == ProjectInfo(widgets)
    IN /\ input_data' = data
       /\ file_uploaded' = uploaded
       /\ UNCHANGED <<uploaded_file, widgets, analysis>>
       /\ IF errors # {}
          THEN /\ st_out' = [NoOutput EXCEPT !.run = "process", !.error = "rejected",
                                !.errors = errors, !.mapping_results = mapping]
               /\ UNCHANGED <<project_info, results_df, statistics, data_processed>>
          ELSE /\ project_info' = Some(info)
               /\ data_processed' = TRUE
               /\ \E run \in process_data_runs(Get(data), info.form_factor, info.plot_area) :
                  IF run.raised # ""
                  THEN /\ st_out' = [NoOutput EXCEPT !.run = "process",
                                        !.error = run.raised, !.mapping_results = mapping]
                       /\ UNCHANGED <<results_df, statistics>>
                  ELSE /\ results_df' = Some(run.df)
                       /\ statistics' = Some(calculate_statistics(run.df, info))
                       /\ st_out' = [NoOutput EXCEPT !.run = "process",
                                        !.mapping_results = mapping,
                                        !.report = run.report]

\* One run of the script with the "Processar Dados" button pressed: the upload
\* block first (when a file is in the uploader), then the button's block.
ProcessClick ==
    \E data \in {IF IsNone(uploaded_file) THEN input_data
                 ELSE Some(detect_and_map_columns(Get(uploaded_file)))} :
    \E mapping \in {IF IsNone(uploaded_file) THEN <<>>
                    ELSE RenameColumns(Get(uploaded_file)).mapping_results} :
    LET uploaded == IF IsNone(uploaded_file) THEN file_uploaded ELSE TRUE
        errors == ValidationErrors(widgets, uploaded, data)
        info == ProjectInfo(widgets)
    IN /\ input_data' = data
       /\ file_uploaded' = uploaded
       /\ UNCHANGED <<uploaded_file, widgets, analysis>>
       /\ IF errors # {}
          THEN /\ st_out' = [NoOutput EXCEPT !.run = "process", !.error = "rejected",
                                !.errors = errors, !.mapping_results = mapping]
               /\ UNCHANGED <<project_info, results_df, statistics, data_processed>>
          ELSE /\ project_info' = Some(info)
               /\ \E run \in process_data_runs(Get(data), info.form_factor, info.plot_area) :
                  IF run.raised # ""
                  THEN /\ st_out' = [NoOutput EXCEPT !.run = "process",
                                        !.error = run.raised, !.mapping_results = mapping]
                       /\ UNCHANGED <<results_df, statistics, data_processed>>
                  ELSE /\ results_df' = Some(run.df)
                       /\ statistics' = Some(calculate_statistics(run.df, info))
                       /\ data_processed' = TRUE
                       /\ st_out' = [NoOutput EXCEPT !.run = "process",
                                        !.mapping_results = mapping,
                                        !.report = run.report]

\* The script run that follows any other interaction: the upload block when a
\* file is in the uploader, nothing otherwise.
Rerun(file) ==
    IF IsNone(file)
    THEN /\ st_out' = [NoOutput EXCEPT !.run = "idle"]
         /\ UNCHANGED <<input_data, file_uploaded>>
    ELSE /\ input_data' = Some(detect_and_map_columns(Get(file)))
         /\ file_uploaded' = TRUE
         /\ st_out' = [NoOutput EXCEPT !.run = "upload",
                          !.mapping_results = RenameColumns(Get(file)).mapping_results]

\* The user puts the sheet t in the uploader; the script reruns.
SelectFile(t) ==
    /\ uploaded_file # Some(t)
    /\ uploaded_file' = Some(t)
    /\ Rerun(Some(t))
    /\ UNCHANGED <<widgets, project_info, results_df, statistics, data_processed, analysis>>

\* The user removes the file from the uploader; the script reruns.
ClearFile ==
    /\ ~IsNone(uploaded_file)
    /\ uploaded_file' = None
    /\ Rerun(None)
    /\ UNCHANGED <<widgets, project_info, results_df, statistics, data_processed, analysis>>

\* The user changes the project form to w; the script reruns.
EditWidgets(w) ==
    /\ w # widgets
    /\ widgets' = w
    /\ Rerun(uploaded_file)
    /\ UNCHANGED <<uploaded_file, project_info, results_df, statistics, data_processed,
                   analysis>>

\* the warnings of the processing tab (accents left out of the texts)
WarnNotProcessed ==
    "Primeiro faca o upload e processamento dos dados na aba 'Upload de Dados'"

WarnNoSpeciesColumn == "Nao foi possivel identificar a coluna de especies nos dados."

WarnNoSpeciesData ==
    "Dados de especie nao disponiveis. Verifique se a planilha possui colunas de nome comum ou cientifico."

\* processing_tab(): the warnings it writes for the session as it stands (it
\* is rendered on every script run); the suppression table always has two rows
processing_tab ==
    IF ~data_processed THEN {WarnNotProcessed}
    ELSE (IF calculate_species_count_table(Get(results_df)) = <<>>
          THEN {WarnNoSpeciesColumn} ELSE {})
         \cup
         (IF calculate_species_volume_summary(Get(results_df), Get(project_info)) = <<>>
          THEN {WarnNoSpeciesData} ELSE {})

\* a caller applies assess_sampling_precision to the arguments it holds
AssessPrecision ==
    /\ analysis.fn = "assess_sampling_precision"
    /\ IsNone(analysis.result)
    /\ analysis' = [analysis EXCEPT
                      !.result = Some(assess_sampling_precision(analysis.args[1],
                                                                analysis.args[2]))]
    /\ UNCHANGED <<uploaded_file, widgets, input_data, file_uploaded, project_info,
                   results_df, statistics, data_processed, st_out>>

\* a caller applies calculate_required_plots to the arguments it holds
RequiredPlots ==
    /\ analysis.fn = "calculate_required_plots"
    /\ IsNone(analysis.result)
    /\ analysis' = [analysis EXCEPT
                      !.result = Some(calculate_required_plots(analysis.args[1].v,
                                                               analysis.args[2],
                                                               analysis.args[3]))]
    /\ UNCHANGED <<uploaded_file, widgets, input_data, file_uploaded, project_info,
                   results_df, statistics, data_processed, st_out>>

\* a caller applies calculate_tree_volume to the two samples it holds
CompareVolumes ==
    /\ analysis.fn = "calculate_tree_volume"
    /\ IsNone(analysis.result)
    /\ analysis' = [analysis EXCEPT
                      !.result = Some(<<calculate_tree_volume_f64(analysis.args[1][1],
                                                                  analysis.args[1][2]),
                                        calculate_tree_volume_f64(analysis.args[2][1],
                                                                  analysis.args[2][2])>>)]
    /\ UNCHANGED <<uploaded_file, widgets, input_data, file_uploaded, project_info,
                   results_df, statistics, data_processed, st_out>>

-----------------------------------------------------------------------------
(* Inputs *)

\* the project form filled in: a project name, one plot of 100 m x 100 m,
\* 1 ha to be cleared, form factor 0.7 (the form's default)
DefaultWidgets == [project_name |-> "P", num_plots |-> 1, plot_length |-> 100,
                   plot_width |-> 100, total_area |-> 1, form_factor |-> 7]

\* a sheet as pd.read_csv / pd.read_excel returns it: rows labelled 0, 1, ...
Sheet(cols, rows) == [cols |-> cols, rows |-> rows, index |-> [r \in 1..Len(rows) |-> r - 1]]

hdr_N_DEG == <<"N", "deg">>
hdr_UA == <<"U", "A">>
hdr_UA_sp == <<"U", "A", " ">>
hdr_CAP_cm == <<"C", "A", "P", " ", "(", "c", "m", ")">>
hdr_HT_m == <<"H", "T", "(", "m", ")">>

\* headers of uploaded sheets (read_csv / read_excel make them pairwise distinct)
Headers == {hdr_N_DEG, col_tree, old_NOME_COMUM, old_NOME_CIENTIFICO, col_composite,
            hdr_CAP_cm, hdr_HT_m, hdr_UA, hdr_UA_sp}

DistinctSeqs(S, n) == {q \in [1..n -> S] : \A i, j \in 1..n : i # j => q[i] # q[j]}

\* text sheets: any distinct headers; no rows, or two rows of text where the
\* first row has no empty cell, or empty cells in its odd or in its even columns
TextCell(r, c, nulls) ==
    IF r = 1 /\ ((nulls = "odd" /\ c % 2 = 1) \/ (nulls = "even" /\ c % 2 = 0))
    THEN NullCell
    ELSE StrCell(IF (r + c) % 2 = 0 THEN "a" ELSE "b")

TextSheets ==
    {Sheet(x[1], [r \in 1..(IF x[2] = "empty" THEN 0 ELSE 2) |->
                    [c \in 1..Len(x[1]) |-> TextCell(r, c, x[2])]]) :
        x \in (UNION {DistinctSeqs(Headers, k) : k \in 1..MaxCols})
                \X {"empty", "none", "odd", "even"}}

\* measured sheets: tree number, CAP and HT columns, up to MaxRows rows, each
\* row one of: measured, CAP zero, CAP as text with HT zero, HT missing,
\* CAP not numeric, CAP missing and HT not numeric
RowKinds ==
    {<<NumCell(31), NumCell(10)>>,
     <<NumCell(0), NumCell(10)>>,
     <<StrCell("31"), NumCell(0)>>,
     <<NumCell(31), NullCell>>,
     <<StrCell("abc"), NumCell(10)>>,
     <<NullCell, StrCell("x")>>}

MeasuredSheets ==
    {Sheet(<<hdr_N_DEG, hdr_CAP_cm, hdr_HT_m>>,
           [r \in 1..Len(q) |-> <<NumCell(r), q[r][1], q[r][2]>>]) :
        q \in UNION {[1..n -> RowKinds] : n \in 0..MaxRows}}

\* inventory sheets: up to MaxTrees measured trees (CAP 31 cm), with or without
\* a plot column; a tree is (plot, species, height), plot or species possibly empty
TreeKinds ==
    {<<NumCell(1), StrCell("a"), 10>>, <<NumCell(2), StrCell("a"), 15>>,
     <<NullCell, StrCell("b"), 10>>, <<NumCell(2), NullCell, 15>>}

TreeLists == UNION {[1..n -> TreeKinds] : n \in 0..MaxTrees}

InventorySheets ==
    {Sheet(<<hdr_UA, hdr_N_DEG, old_NOME_COMUM, hdr_CAP_cm, hdr_HT_m>>,
           [r \in 1..Len(q) |->
              <<q[r][1], NumCell(r), q[r][2], NumCell(31), NumCell(q[r][3])>>]) :
        q \in TreeLists}
    \cup
    {Sheet(<<hdr_N_DEG, old_NOME_COMUM, hdr_CAP_cm, hdr_HT_m>>,
           [r \in 1..Len(q) |-> <<NumCell(r), q[r][2], NumCell(31), NumCell(q[r][3])>>]) :
        q \in TreeLists}

\* sheets of a working session: one or two measured trees, with both
\* measurement columns, without the CAP column or without the HT column
SessionHeaders == {<<hdr_N_DEG, hdr_CAP_cm, hdr_HT_m>>, <<hdr_N_DEG, hdr_HT_m>>,
                   <<hdr_N_DEG, hdr_CAP_cm>>}

SessionCell(h, r) ==
    IF h = hdr_N_DEG THEN NumCell(r)
    ELSE IF h = hdr_CAP_cm THEN NumCell(31)
    ELSE NumCell(IF r = 1 THEN 10 ELSE 15)

SessionSheets ==
    {Sheet(x[1], [r \in 1..x[2] |-> [c \in 1..Len(x[1]) |-> SessionCell(x[1][c], r)]]) :
        x \in SessionHeaders \X (1..2)}

\* forms of a working session: with or without a project name, 1..MaxPlots plots
SessionWidgets ==
    {[DefaultWidgets EXCEPT !.project_name = x[1], !.num_plots = x[2]] :
        x \in {"", "P"} \X (1..MaxPlots)}

\* sheets without rows: any distinct headers out of the documented ones, none
\* included (a blank worksheet read by pd.read_excel has no column and no row)
EmptyHeaders == {hdr_UA, hdr_N_DEG, old_NOME_COMUM, hdr_CAP_cm, hdr_HT_m}

EmptySheets ==
    {Sheet(h, <<>>) : h \in UNION {DistinctSeqs(EmptyHeaders, k) : k \in 0..MaxCols}}

\* survey sheets: up to MaxTrees trees of height 10 m, with or without a species
\* column and a plot column; a tree is (plot, species, CAP): species "a" in
\* plot 1, species "b" in plot 2, or an unnamed tree of CAP 0 in plot 2
SurveyKinds ==
    {<<NumCell(1), StrCell("a"), 31>>, <<NumCell(2), StrCell("b"), 31>>,
     <<NumCell(2), NullCell, 0>>}

SurveyLists == UNION {[1..n -> SurveyKinds] : n \in 0..MaxTrees}

SurveySheets ==
    {Sheet(<<hdr_UA, hdr_N_DEG, old_NOME_COMUM, hdr_CAP_cm, hdr_HT_m>>,
           [r \in 1..Len(q) |->
              <<q[r][1], NumCell(r), q[r][2], NumCell(q[r][3]), NumCell(10)>>]) :
        q \in SurveyLists}
    \cup
    {Sheet(<<hdr_N_DEG, old_NOME_COMUM, hdr_CAP_cm, hdr_HT_m>>,
           [r \in 1..Len(q) |-> <<NumCell(r), q[r][2], NumCell(q[r][3]), NumCell(10)>>]) :
        q \in SurveyLists}
    \cup
    {Sheet(<<hdr_N_DEG, hdr_CAP_cm, hdr_HT_m>>,
           [r \in 1..Len(q) |-> <<NumCell(r), NumCell(q[r][3]), NumCell(10)>>]) :
        q \in SurveyLists}

\* arguments of the helpers of StatisticsAnalyzer, in whole percentages
MaxError == 64
TargetErrors == {10, 20, 25}
PlotCounts == {1, 5, 25}

AnalyzerCalls ==
    {[fn |-> "assess_sampling_precision", args |-> <<e, t, 1>>, result |-> None] :
        e \in {NullCell} \cup {NumCell(x) : x \in 0..MaxError}, t \in TargetErrors}
    \cup
    {[fn |-> "calculate_required_plots", args |-> <<NumCell(x), t, n>>, result |-> None] :
        x \in 0..MaxError, t \in TargetErrors, n \in PlotCounts}

\* long sheets: 0..MaxLong rows, with or without a tree-number column; the
\* odd rows are of one kind and the even rows of another, a kind being
\* measured, HT missing or CAP not numeric
MaxLong == 12

LongKinds ==
    {<<NumCell(31), NumCell(10)>>, <<NumCell(31), NullCell>>,
     <<StrCell("abc"), NumCell(10)>>}

LongRow(r, odd, even) == IF r % 2 = 1 THEN odd ELSE even

LongSheets ==
    {Sheet(<<hdr_N_DEG, hdr_CAP_cm, hdr_HT_m>>,
           [r \in 1..n |-> <<NumCell(r)>> \o LongRow(r, odd, even)]) :
        n \in 0..MaxLong, odd \in LongKinds, even \in LongKinds}
    \cup
    {Sheet(<<hdr_CAP_cm, hdr_HT_m>>, [r \in 1..n |-> LongRow(r, odd, even)]) :
        n \in 0..MaxLong, odd \in LongKinds, even \in LongKinds}

\* pairs of samples (positions in DapSamples and HtSamples) that differ in one
\* argument, the smaller first
VolumePairs ==
    {[fn |-> "calculate_tree_volume", args |-> << <<i1, j>>, <<i2, j>> >>, result |-> None] :
        i1 \in 1..Len(DapSamples), i2 \in 1..Len(DapSamples), j \in 1..Len(HtSamples)}
    \cup
    {[fn |-> "calculate_tree_volume", args |-> << <<i, j1>>, <<i, j2>> >>, result |-> None] :
        i \in 1..Len(DapSamples), j1 \in 1..Len(HtSamples), j2 \in 1..Len(HtSamples)}

\* named sheets: up to MaxTrees measured trees, each with a common name and a
\* scientific name out of "a" and "b", the two name columns in either order
NameKinds == {<<StrCell(x), StrCell(y)>> : x \in {"a", "b"}, y \in {"a", "b"}}

NamedSheets ==
    {Sheet(<<hdr_N_DEG, old_NOME_COMUM, old_NOME_CIENTIFICO, hdr_CAP_cm, hdr_HT_m>>,
           [r \in 1..Len(q) |-> <<NumCell(r), q[r][1], q[r][2], NumCell(31), NumCell(10)>>]) :
        q \in UNION {[1..n -> NameKinds] : n \in 0..MaxTrees}}
    \cup
    {Sheet(<<hdr_N_DEG, old_NOME_CIENTIFICO, old_NOME_COMUM, hdr_CAP_cm, hdr_HT_m>>,
           [r \in 1..Len(q) |-> <<NumCell(r), q[r][2], q[r][1], NumCell(31), NumCell(10)>>]) :
        q \in UNION {[1..n -> NameKinds] : n \in 0..MaxTrees}}

-----------------------------------------------------------------------------
(* Specifications *)

\* the Column Normalizer on text sheets
InitNorm ==
    /\ uploaded_file \in {Some(t) : t \in TextSheets}
    /\ widgets = DefaultWidgets
    /\ SessionInit
    /\ analysis = NoCall

NextNorm == UploadRun

SpecNorm == InitNorm /\ [][NextNorm]_vars

\* the Volume Calculator on measured sheets
InitCalc ==
    /\ uploaded_file \in {Some(t) : t \in MeasuredSheets}
    /\ widgets = DefaultWidgets
    /\ SessionInit
    /\ analysis = NoCall

NextCalc == UploadRun \/ ProcessClick

SpecCalc == InitCalc /\ [][NextCalc]_vars

\* aggregation and statistics on inventory sheets, for 1..MaxPlots plots
InitAgg ==
    /\ uploaded_file \in {Some(t) : t \in InventorySheets}
    /\ widgets \in {[DefaultWidgets EXCEPT !.num_plots = n] : n \in 1..MaxPlots}
    /\ SessionInit
    /\ analysis = NoCall

NextAgg == UploadRun \/ ProcessClick

SpecAgg == InitAgg /\ [][NextAgg]_vars

\* a working session: files come and go, the form changes, runs repeat
InitSession ==
    /\ uploaded_file = None
    /\ widgets = DefaultWidgets
    /\ SessionInit
    /\ analysis = NoCall

NextSession ==
    \/ \E t \in SessionSheets : SelectFile(t)
    \/ ClearFile
    \/ \E w \in SessionWidgets : EditWidgets(w)
    \/ UploadRun
    \/ ProcessClick

SpecSession == InitSession /\ [][NextSession]_vars

\* uploads of sheets without rows, for 1..MaxPlots plots
InitEmpty ==
    /\ uploaded_file \in {Some(t) : t \in EmptySheets}
    /\ widgets \in {[DefaultWidgets EXCEPT !.num_plots = n] : n \in 1..MaxPlots}
    /\ SessionInit
    /\ analysis = NoCall

NextEmpty == UploadRun \/ ProcessClick

SpecEmpty == InitEmpty /\ [][NextEmpty]_vars

\* the summaries of survey sheets, for 1..MaxPlots plots
InitPlots ==
    /\ uploaded_file \in {Some(t) : t \in SurveySheets}
    /\ widgets \in {[DefaultWidgets EXCEPT !.num_plots = n] : n \in 1..MaxPlots}
    /\ SessionInit
    /\ analysis = NoCall

NextPlots == UploadRun \/ ProcessClick

SpecPlots == InitPlots /\ [][NextPlots]_vars

\* direct calls of the helpers of StatisticsAnalyzer
InitAnalyzer ==
    /\ uploaded_file = None
    /\ widgets = DefaultWidgets
    /\ SessionInit
    /\ analysis \in AnalyzerCalls

NextAnalyzer == AssessPrecision \/ RequiredPlots

SpecAnalyzer == InitAnalyzer /\ [][NextAnalyzer]_vars

\* the validation of long sheets
InitLong ==
    /\ uploaded_file \in {Some(t) : t \in LongSheets}
    /\ widgets = DefaultWidgets
    /\ SessionInit
    /\ analysis = NoCall

NextLong == UploadRun \/ ProcessClick

SpecLong == InitLong /\ [][NextLong]_vars

\* calculate_tree_volume on pairs of samples
InitVolume ==
    /\ uploaded_file = None
    /\ widgets = DefaultWidgets
    /\ SessionInit
    /\ analysis \in {c \in VolumePairs :
                        \/ c.args[1][1] < c.args[2][1]
                        \/ c.args[1][2] < c.args[2][2]}

NextVolume == CompareVolumes

SpecVolume == InitVolume /\ [][NextVolume]_vars

\* the species summaries of named sheets
InitNames ==
    /\ uploaded_file \in {Some(t) : t \in NamedSheets}
    /\ widgets = DefaultWidgets
    /\ SessionInit
    /\ analysis = NoCall

NextNames == UploadRun \/ ProcessClick

SpecNames == InitNames /\ [][NextNames]_vars

-----------------------------------------------------------------------------
(* Claims about the Column Normalizer (SpecNorm) *)

Canonical == Range(CanonicalNames)
Priority(c) == CHOOSE p \in 1..Len(CanonicalNames) : CanonicalNames[p] = c

\* the last run was an upload; MR[i] tells what became of header i
Uploaded == st_out.run = "upload"
MR == st_out.mapping_results
HeaderUpper(i) == StrUpper(MR[i].original_col)
Assigned(i, c) == ~MR[i].retained /\ MR[i].mapped_name = c
Matches(i, c) == MatchesRule(c, HeaderUpper(i))

C9_NamesDistinct ==
    Uploaded =>
        \A i, j \in 1..Len(MR) : i # j => MR[i].mapped_name # MR[j].mapped_name

\* C10: with a common-name and a scientific-name column the composite is
\* str(common) + " / " + str(scientific) in every row; with exactly one of
\* them it is that column, cell by cell; with neither no column is added.
C10_Composite ==
    Uploaded =>
        LET df == Get(input_data)
            raw == Get(uploaded_file)
            Text(c) == IF IsNa(c) THEN "nan" ELSE c.s
        IN IF HasCol(df, col_comum) /\ HasCol(df, col_cientifico)
           THEN /\ HasCol(df, col_composite)
                /\ \A r \in 1..NRows(df) :
                      Column(df, col_composite)[r] =
                          StrCell(Text(Column(df, col_comum)[r]) \o " / "
                                    \o Text(Column(df, col_cientifico)[r]))
           ELSE IF HasCol(df, col_comum)
           THEN HasCol(df, col_composite)
                   /\ Column(df, col_composite) = Column(df, col_comum)
           ELSE IF HasCol(df, col_cientifico)
           THEN HasCol(df, col_composite)
                   /\ Column(df, col_composite) = Column(df, col_cientifico)
           ELSE ~HasCol(df, col_composite) /\ Len(df.cols) = Len(raw.cols)

\* both name columns exist and a row has an empty common name
C10_Witness ==
    /\ Uploaded
    /\ HasCol(Get(input_data), col_comum) /\ HasCol(Get(input_data), col_cientifico)
    /\ \E r \in 1..NRows(Get(input_data)) :
          /\ IsNa(Column(Get(input_data), col_comum)[r])
          /\ ~IsNa(Column(Get(input_data), col_cientifico)[r])

-----------------------------------------------------------------------------
(* Claims about the Volume Calculator (SpecCalc) *)

\* the last run was a "Processar Dados" run that stored its results
Processed == st_out.run = "process" /\ st_out.error = ""

\* C1 as stated: every row of the table process_data returns, which the run
\* stores in results_df and aggregates, has CAP > 0 and HT > 0.
C1_PositiveMeasurements ==
    Processed =>
        \A r \in 1..NRows(Get(results_df)) :
            /\ Column(Get(results_df), col_cap)[r].v > 0
            /\ Column(Get(results_df), col_ht)[r].v > 0

\* C4: the rows process_data returns, the rows it reports as dropped for a
\* missing CAP or HT and the rows it reports as dropped by the numeric
\* coercion are, together, exactly the input rows: no row is lost elsewhere,
\* none is counted twice and none is added.
C4_RowCount ==
    Processed =>
        LET out == Get(results_df).index
            missing == st_out.report.empty_rows
            coerced == st_out.report.invalid_rows
        IN /\ Len(out) + Len(missing) + Len(coerced) = NRows(Get(uploaded_file))
           /\ Len(out) + Len(missing) + Len(coerced) = st_out.report.initial_count
           /\ Len(out) = st_out.report.final_count
           /\ Range(out) \cup Range(missing) \cup Range(coerced)
                 = Range(Get(uploaded_file).index)

\* a run that kept a row, dropped a row for a missing value and dropped a row
\* at the numeric coercion
C4_Witness ==
    /\ Processed
    /\ NRows(Get(results_df)) > 0
    /\ st_out.report.empty_rows # <<>>
    /\ st_out.report.invalid_rows # <<>>

-----------------------------------------------------------------------------
(* Claims about the aggregators and the statistics (SpecAgg) *)

\* the tables the processing tab builds from the session after a stored run
PlotTable == calculate_plot_averages_table(Get(results_df), Get(project_info))
PlotRows == IF PlotTable = <<>> THEN <<>> ELSE SubSeq(PlotTable, 1, Len(PlotTable) - 1)
SpeciesVolumes == calculate_species_volume_summary(Get(results_df), Get(project_info))
SpeciesCounts == calculate_species_count_table(Get(results_df))
FallbackPath == IsNone(ua_column(Get(results_df)))

Abs(x) == IF x < 0 THEN -x ELSE x

\* C2 as stated: statistics computed over a single plot and stored in the
\* session hold no NaN for the variance, the confidence bounds or the
\* sampling error (the run fails, or the values are marked as undefined).
C2_SinglePlotNoNaN ==
    (Processed /\ Get(statistics).n_trees = 1) =>
        /\ ~IsNa(Get(statistics).variance)
        /\ ~IsNa(Get(statistics).ci_lower)
        /\ ~IsNa(Get(statistics).ci_upper)
        /\ ~IsNa(Get(statistics).sampling_error)

\* C5 as stated, read with the tolerance of the two decimals each plot row is
\* rounded to: the 'VT (m3)' values of the plot rows (without 'Total') add up
\* to the sum of 'VT (m3)' over all tree rows, in both paths.
C5_VolumeConserved ==
    Processed =>
        LET plots == SumSeq([i \in 1..Len(PlotRows) |-> PlotRows[i].VT.v]) * 100
            trees == SumSeq([r \in 1..NRows(Get(results_df)) |->
                               Column(Get(results_df), col_vt)[r].v])
        IN Abs(plots - trees) <= 50 * Len(PlotRows)

\* C6 as stated: when the species tables are not empty, the per-species tree
\* counts add up to the number of rows of the processed table.
C6_CountsConserved ==
    Processed =>
        /\ SpeciesVolumes # <<>> =>
              SumSeq([i \in 1..Len(SpeciesVolumes) |-> SpeciesVolumes[i].n_trees_plot])
                  = NRows(Get(results_df))
        /\ SpeciesCounts # <<>> =>
              SumSeq([i \in 1..Len(SpeciesCounts) |-> SpeciesCounts[i].Quantidade])
                  = NRows(Get(results_df))

\* C7 as stated: without a plot column, calculate_statistics and
\* calculate_plot_averages_fallback put every tree row in the same plot.
C7_SamePartition ==
    (Processed /\ FallbackPath) =>
        LET total_trees == NRows(Get(results_df))
            num_plots == Get(project_info).num_plots
            stat == StatBounds(total_trees, num_plots)
            aggr == FallbackBounds(total_trees, num_plots, 1, 0)
        IN \A r \in 1..total_trees : \A k \in 1..num_plots :
              (stat[k].start < r /\ r <= stat[k].end)
                  <=> (aggr[k].start < r /\ r <= aggr[k].end)

-----------------------------------------------------------------------------
(* Claims about the session (SpecSession) *)

\* C3 as stated: a "Processar Dados" run in which process_data raises its
\* 'Required column' error leaves project_info, results_df, statistics and
\* data_processed as they were before the run.
C3_FailedRunKeepsSession ==
    [][(st_out'.run = "process" /\ st_out'.error = RequiredColumnError) =>
          /\ project_info' = project_info
          /\ results_df' = results_df
          /\ statistics' = statistics
          /\ data_processed' = data_processed]_vars

-----------------------------------------------------------------------------
(* Claims about empty tables (SpecEmpty) *)

\* C11 as stated: for an uploaded table with zero columns or zero rows, a
\* "Processar Dados" run raises no exception and leaves an empty result (a
\* stored table without rows), on which the plot table, the species tables
\* and the statistics are empty (no plot row, no species row, no plot counted).
C11_EmptyTableNoException ==
    (/\ st_out.run = "process"
     /\ st_out.error # "rejected"
     /\ (Get(uploaded_file).cols = <<>> \/ NRows(Get(uploaded_file)) = 0)) =>
        /\ st_out.error = ""
        /\ ~IsNone(results_df)
        /\ NRows(Get(results_df)) = 0
        /\ PlotTable = <<>>
        /\ SpeciesVolumes = <<>>
        /\ SpeciesCounts = <<>>
        /\ Get(statistics).n_trees = 0

-----------------------------------------------------------------------------
(* Claims about the summaries of survey sheets (SpecPlots) *)

\* the chunks of the fallback path for the stored table
Chunks == FallbackBounds(NRows(Get(results_df)), Get(project_info).num_plots, 1, 0)

\* C12: without a plot column the fallback splits the T rows, in their order,
\* into N contiguous chunks covering every row exactly once, the first
\* (T mod N) chunks of floor(T/N)+1 rows and the others of floor(T/N) rows;
\* the plot rows returned are computed over exactly these chunks.
C12_FallbackPartition ==
    (Processed /\ FallbackPath) =>
        \A T \in {NRows(Get(results_df))} :
        \A N \in {Get(project_info).num_plots} :
        \A chunks \in {Chunks} :
        \A rows \in {PlotRows} :
           /\ Len(chunks) = N
           /\ chunks[1].start = 0
           /\ chunks[N].end = T
           /\ \A k \in 1..(N - 1) : chunks[k + 1].start = chunks[k].end
           /\ \A k \in 1..N :
                 chunks[k].end - chunks[k].start
                     = (T \div N) + (IF k <= T % N THEN 1 ELSE 0)
           /\ \A i \in 1..Len(rows) :
                 \A k \in {rows[i].Parcela.v} :
                    rows[i].trees
                       = [j \in 1..(chunks[k].end - chunks[k].start) |-> chunks[k].start + j]
           /\ \A r \in 1..T : \E i \in 1..Len(rows) : InSeq(r, rows[i].trees)

\* a fallback run with more trees than plots and a remainder
C12_Witness ==
    /\ Processed
    /\ FallbackPath
    /\ NRows(Get(results_df)) > Get(project_info).num_plots
    /\ NRows(Get(results_df)) % Get(project_info).num_plots # 0

\* C13 as stated: the plot summary holds exactly one plot row per plot: one
\* per distinct plot identifier when a plot column is recognised, and exactly
\* N rows (N the declared number of plots) on the fallback path, also when the
\* table has fewer trees than plots.
C13_OneRowPerPlot ==
    Processed =>
        \A rows \in {PlotRows} :
           IF FallbackPath
           THEN Len(rows) = Get(project_info).num_plots
           ELSE \A df \in {Get(results_df)} :
                \A ua \in {Get(ua_column(df))} :
                   /\ Len(rows) = Cardinality({df.rows[r][ua] : r \in 1..NRows(df)})
                   /\ \A i, j \in 1..Len(rows) :
                         rows[i].Parcela = rows[j].Parcela => i = j

\* C14: the rows of calculate_species_volume_summary are in non-increasing
\* order of their 'VT (m^3)/ha' value.
C14_SpeciesByVolumeDesc ==
    Processed =>
        \A rows \in {SpeciesVolumes} :
           \A i, j \in 1..Len(rows) : i < j => rows[i].VT_ha >= rows[j].VT_ha

\* two species of which the later name has the larger volume per hectare
C14_Witness ==
    /\ Processed
    /\ Len(SpeciesVolumes) = 2
    /\ SpeciesVolumes[1].Especie = StrCell("b")
    /\ SpeciesVolumes[2].Especie = StrCell("a")
    /\ SpeciesVolumes[1].VT_ha > SpeciesVolumes[2].VT_ha

\* the header holds one of the species keywords of the aggregator
SpeciesKeyword(col_upper) ==
    \E kw \in {kw_NOME_COMUM, kw_ESPECIE, kw_SPECIES, kw_NOME_CIENTIFICO} :
        Contains(col_upper, kw)

\* C15: when no header of the processed table holds a species keyword, or the
\* first column that does is entirely empty, both species functions return an
\* empty table and the processing tab writes the species warnings in place of
\* the two tables.
C15_NoSpeciesEmptyAndWarned ==
    Processed =>
        \A df \in {Get(results_df)} :
           \A named \in {{i \in 1..Len(df.cols) : SpeciesKeyword(StrUpper(df.cols[i]))}} :
              (\/ named = {}
               \/ \E i \in named :
                     /\ \A j \in named : i <= j
                     /\ \A r \in 1..NRows(df) : df.rows[r][i] = NullCell) =>
                  /\ SpeciesVolumes = <<>>
                  /\ SpeciesCounts = <<>>
                  /\ processing_tab = {WarnNoSpeciesColumn, WarnNoSpeciesData}

\* a processed table whose species column is there, has rows and holds no name
C15_Witness ==
    /\ Processed
    /\ ~IsNone(species_column(Get(results_df)))
    /\ NRows(Get(results_df)) >= 2
    /\ \A r \in 1..NRows(Get(results_df)) :
          Get(results_df).rows[r][Get(species_column(Get(results_df)))] = NullCell
    /\ processing_tab = {WarnNoSpeciesColumn, WarnNoSpeciesData}

\* the per-plot per-hectare totals of the stored table (10^-4 m3/ha)
PlotTotals == plot_volumes(Get(results_df), Get(project_info))

\* C16: when the n >= 2 per-plot totals are all equal to v, the stored
\* statistics have variance, std_dev, cv and sampling_error 0 and
\* ci_lower = ci_upper = mean = v.
C16_ConstantVector ==
    Processed =>
        \A xs \in {PlotTotals} :
           (Len(xs) >= 2 /\ \A i \in 1..Len(xs) : xs[i] = xs[1]) =>
              \A st \in {Get(statistics)} :
                 /\ st.n_trees = Len(xs)
                 /\ st.variance = NumCell(0)
                 /\ st.std_dev = NumCell(0)
                 /\ st.cv = NumCell(0)
                 /\ st.sampling_error = NumCell(0)
                 /\ st.mean = NumCell(xs[1])
                 /\ st.ci_lower = NumCell(xs[1])
                 /\ st.ci_upper = NumCell(xs[1])

\* plots of one and the same positive total, one of them with a second tree
C16_Witness ==
    /\ Processed
    /\ Len(PlotTotals) >= 2
    /\ \A i \in 1..Len(PlotTotals) : PlotTotals[i] = PlotTotals[1]
    /\ PlotTotals[1] > 0
    /\ NRows(Get(results_df)) > Len(PlotTotals)
    /\ Get(statistics).variance = NumCell(0)
    /\ Get(statistics).ci_upper = NumCell(PlotTotals[1])

\* C19: when the mean of the per-plot totals is 0 (n >= 1 plots summing to 0),
\* the stored cv and sampling_error are the number 0, not an undefined value.
C19_ZeroMeanGuard ==
    Processed =>
        \A xs \in {PlotTotals} :
           (Len(xs) >= 1 /\ SumSeq(xs) = 0) =>
              /\ Get(statistics).cv = NumCell(0)
              /\ Get(statistics).sampling_error = NumCell(0)

\* two or more plots of trees without volume
C19_Witness ==
    /\ Processed
    /\ NRows(Get(results_df)) >= 2
    /\ Len(PlotTotals) >= 2
    /\ SumSeq(PlotTotals) = 0
    /\ Get(statistics).mean = NumCell(0)
    /\ Get(statistics).cv = NumCell(0)
    /\ Get(statistics).sampling_error = NumCell(0)

-----------------------------------------------------------------------------
(* Claims about the helpers of StatisticsAnalyzer (SpecAnalyzer) *)

Returned(fn) == analysis.fn = fn /\ ~IsNone(analysis.result)

\* C17 as stated: calculate_required_plots returns current_plots when
\* current_error <= target_error and otherwise the least integer not below
\* current_plots * (current_error / target_error)^2.
C17_RequiredPlotsCeil ==
    Returned("calculate_required_plots") =>
        \A ce \in {analysis.args[1].v} :
        \A te \in {analysis.args[2]} :
        \A cp \in {analysis.args[3]} :
           /\ ce <= te => Get(analysis.result) = cp
           /\ ce > te =>
                 \A n \in {Get(analysis.result)} :
                    /\ n * te * te >= cp * ce * ce
                    /\ (n - 1) * te * te < cp * ce * ce

\* C18: assess_sampling_precision reports that the precision is met exactly
\* when sampling_error is a number not above the threshold; in every other
\* case (NaN too) it reports that it is not met, with the message that
\* recommends more plots.
C18_PrecisionVerdict ==
    Returned("assess_sampling_precision") =>
        \A e \in {analysis.args[1]} :
        \A t \in {analysis.args[2]} :
        \A r \in {Get(analysis.result)} :
           /\ r.meets_precision <=> (e # NullCell /\ e.v <= t)
           /\ r.threshold = t
           /\ r.sampling_error = e
           /\ InSeq(Recommendation, r.message) <=> ~r.meets_precision

\* an error equal to the threshold was assessed as meeting the precision
C18_Witness ==
    /\ Returned("assess_sampling_precision")
    /\ analysis.args[1] = NumCell(analysis.args[2])
    /\ Get(analysis.result).meets_precision
    /\ ~InSeq(Recommendation, Get(analysis.result).message)

-----------------------------------------------------------------------------
(* Claims about the report of removed rows (SpecLong) *)

\* the index labels of the rows of the uploaded table that are not in the result
RemovedLabels == Range(Get(uploaded_file).index) \ Range(Get(results_df).index)

\* the tree numbers of the uploaded rows with the given index labels
NumbersOf(labels) ==
    LET df == Get(input_data)
    IN {Column(df, col_tree)[r] : r \in {q \in 1..NRows(df) : df.index[q] \in labels}}

\* C20 as stated: a run reports the number of removed rows (input rows minus
\* surviving rows) and the identifier of each removed row: the reported
\* identifiers are those of the rows removed for a missing value or by the
\* coercion, with a tree-number column (the tree numbers) and without one (the
\* row labels of the tables shown).
C20_RemovedRowsReported ==
    Processed =>
        \A rep \in {st_out.report} :
        \A removed \in {RemovedLabels} :
           /\ rep.initial_count - rep.final_count = Cardinality(removed)
           /\ rep.initial_count = NRows(Get(uploaded_file))
           /\ IF HasCol(Get(input_data), col_tree)
              THEN (IF IsNone(rep.empty_numbers) THEN {}
                    ELSE Range(Get(rep.empty_numbers)))
                   \cup (IF IsNone(rep.invalid_numbers) THEN {}
                         ELSE Range(Get(rep.invalid_numbers)))
                      = NumbersOf(removed)
              ELSE Range(rep.empty_preview) \cup Range(rep.invalid_preview) = removed

-----------------------------------------------------------------------------
(* Claims about the rounding of the derived columns (SpecCalc) *)

\* C21: the four derived columns of the stored table hold the values of their
\* formulas rounded to 4 decimals, and the stored statistics are those of the
\* per-plot sums of the rounded 'VT (m3/ha)' cells (their mean, minimum and
\* maximum), not of sums taken before the rounding.
C21_StatisticsOnRounded ==
    Processed =>
        \A df \in {Get(results_df)} :
        \A info \in {Get(project_info)} :
        \A st \in {Get(statistics)} :
           /\ \A r \in 1..NRows(df) :
                 \A vt \in {calculate_tree_volume(Column(df, col_cap)[r].v,
                                                  Column(df, col_ht)[r].v)} :
                    /\ Column(df, col_dap)[r] = NumCell(calculate_dap(Column(df, col_cap)[r].v))
                    /\ Column(df, col_vt)[r] = NumCell(RoundDiv(vt, 10000))
                    /\ Column(df, col_vt_ha)[r]
                          = NumCell(RoundDiv(vt * 10, info.form_factor * info.plot_area))
                    /\ Column(df, col_vt_st)[r]
                          = NumCell(RoundDiv(vt * 53, 2 * info.form_factor * info.plot_area))
           /\ \A xs \in {PlotTotals} :
                 /\ st.n_trees = Len(xs)
                 /\ Len(xs) = 1 =>
                       /\ xs[1] = SumSeq([r \in 1..NRows(df) |-> Column(df, col_vt_ha)[r].v])
                       /\ st.mean = NumCell(xs[1])
                       /\ st.minimum = NumCell(xs[1])
                       /\ st.maximum = NumCell(xs[1])

\* a plot of trees whose rounded volumes per hectare sum to another value than
\* the rounded sum of the unrounded ones
C21_Witness ==
    /\ Processed
    /\ NRows(Get(results_df)) >= 2
    /\ Get(statistics).n_trees = 1
    /\ Get(statistics).mean.v
          # UnroundedTotal(Get(results_df), Get(project_info),
                           [r \in 1..NRows(Get(results_df)) |-> r])

-----------------------------------------------------------------------------
(* Claims about the volume formula (SpecVolume) *)

\* the two samples of the call differ in the measurement, not only in the last place
DistinctMeasurements ==
    \/ DapSamples[analysis.args[1][1]][1] < DapSamples[analysis.args[2][1]][1]
    \/ HtSamples[analysis.args[1][2]][1] < HtSamples[analysis.args[2][2]][1]

-----------------------------------------------------------------------------
(* Claims about the working session (SpecSession) *)

\* a project field of the form is invalid
InvalidForm ==
    \/ widgets.project_name = ""
    \/ widgets.num_plots < 1
    \/ widgets.plot_length <= 0
    \/ widgets.plot_width <= 0
    \/ widgets.total_area <= 0
    \/ widgets.form_factor < 1
    \/ widgets.form_factor > 10

\* no file is in the uploader and none was stored by an earlier run
NoFileUploaded == IsNone(uploaded_file) /\ (~file_uploaded \/ IsNone(input_data))

\* C23: a press of "Processar Dados" while a project field is invalid or no
\* file has been uploaded shows error messages only: no calculation is run and
\* project_info, results_df, statistics and data_processed stay as they were.
C23_RejectedPressKeepsResults ==
    [][(st_out'.run = "process" /\ (InvalidForm \/ NoFileUploaded)) =>
          /\ st_out'.error = "rejected"
          /\ st_out'.errors # {}
          /\ st_out'.report = NoReport
          /\ project_info' = project_info
          /\ results_df' = results_df
          /\ statistics' = statistics
          /\ data_processed' = data_processed]_vars

\* a press was rejected for the missing project name after a successful run
C23_Witness ==
    /\ st_out.run = "process"
    /\ st_out.error = "rejected"
    /\ widgets.project_name = ""
    /\ ~IsNone(uploaded_file)
    /\ data_processed
    /\ ~IsNone(results_df)

-----------------------------------------------------------------------------
(* Claims about the rows of the processed table (SpecCalc) *)

\* the cell holds a number or the text of one
Coercible(c) == c.k = "num" \/ (c.k = "str" /\ c.s \in {"31", "10"})

\* the positions of the uploaded rows whose CAP and HT are both there and coercible
ValidRows ==
    LET df == Get(input_data)
    IN SelectIdx([r \in 1..NRows(df) |->
                    Coercible(Column(df, col_cap)[r]) /\ Coercible(Column(df, col_ht)[r])],
                 1, NRows(df))

\* C24: the table process_data returns holds exactly the input rows whose CAP
\* and HT are both non-null and coercible to a number, in their input order,
\* each with its tree number and its CAP and HT as numbers.
C24_ExactlyValidRows ==
    Processed =>
        \A in \in {Get(input_data)} :
        \A out \in {Get(results_df)} :
        \A valid \in {ValidRows} :
           /\ NRows(out) = Len(valid)
           /\ \A k \in 1..Len(valid) :
                 /\ out.index[k] = in.index[valid[k]]
                 /\ Column(out, col_tree)[k] = Column(in, col_tree)[valid[k]]
                 /\ Column(out, col_cap)[k].k = "num"
                 /\ Column(out, col_ht)[k].k = "num"
                 /\ Column(in, col_ht)[valid[k]].k = "num" =>
                       Column(out, col_ht)[k] = Column(in, col_ht)[valid[k]]

\* a row with its CAP as text survived next to another row, and a row was dropped
C24_Witness ==
    /\ Processed
    /\ NRows(Get(results_df)) >= 2
    /\ NRows(Get(results_df)) < NRows(Get(input_data))
    /\ \E k \in 1..Len(ValidRows) : Column(Get(input_data), col_cap)[ValidRows[k]].k = "str"
    /\ \E r \in 1..NRows(Get(input_data)) : r < ValidRows[Len(ValidRows)] /\ ~InSeq(r, ValidRows)

-----------------------------------------------------------------------------
(* Claims about the species of named sheets (SpecNames) *)

\* C25 as stated: when the stored table holds the composite identifier made
\* from a common-name and a scientific-name column, the species rows are the
\* groups of that identifier: there is one row per distinct composite value, so trees
\* with different composite values are never counted in the same row.
C25_GroupedByComposite ==
    (/\ Processed
     /\ HasCol(Get(results_df), col_comum)
     /\ HasCol(Get(results_df), col_cientifico)
     /\ HasCol(Get(results_df), col_composite)) =>
        \A df \in {Get(results_df)} :
        \A rows \in {SpeciesVolumes} :
           Len(rows) = Cardinality(Range(Column(df, col_composite)))

-----------------------------------------------------------------------------
(* Claims about the plot totals of inventory sheets (SpecAgg) *)

\* C26 as stated: every tree row of the processed table is counted in exactly
\* one per-plot total, with a plot column and without one: the per-plot totals
\* used by calculate_statistics add up to the sum of 'VT (m3/ha)' over all rows,
\* the 'Volume (m3/ha)' value of the suppression table.
C26_PlotTotalsConserveVolume ==
    Processed =>
        SumSeq(plot_volumes(Get(results_df), Get(project_info)))
           = total_volume_m3_ha(Get(results_df))

-----------------------------------------------------------------------------
(* Claims about the precision verdicts (SpecAgg) *)

\* C27 as stated: for the stored sampling_error, NaN included, the statistics
\* tab, the final-report tab, the Excel 'Precisao Atingida' cell, the PDF
\* precision paragraph and assess_sampling_precision (threshold 20%, here in
\* hundredths of a percent like the stored value) all give the same verdict.
C27_SameVerdict ==
    Processed =>
        \A stats \in {Get(statistics)} :
        \A met \in {~precision_alert(stats)} :
           /\ met = ~report_precision_alert(stats)
           /\ met = excel_precision_met(stats)
           /\ met = pdf_precision_met(stats)
           /\ met = assess_sampling_precision(stats.sampling_error, 2000).meets_precision

-----------------------------------------------------------------------------
(* Claims about the stored results (SpecSession) *)

\* C28 as stated: whenever data_processed is true, the stored results_df and
\* statistics are those that a processing run computes from the input_data
\* stored in the session now (for some project form of the session).
C28_ResultsOfCurrentInput ==
    data_processed =>
        /\ ~IsNone(input_data)
        /\ \E w \in SessionWidgets :
           \E info \in {ProjectInfo(w)} :
           \E run \in process_data_runs(Get(input_data), info.form_factor, info.plot_area) :
              /\ run.raised = ""
              /\ results_df = Some(run.df)
              /\ statistics = Some(calculate_statistics(run.df, info))

\* C29: in every reachable session state, data_processed = TRUE implies that
\* project_info, results_df and statistics are all set, whatever the order of
\* uploads, rejected, failed and successful "Processar Dados" runs.
C29_ProcessedImpliesResults ==
    data_processed =>
        /\ ~IsNone(project_info)
        /\ ~IsNone(results_df)
        /\ ~IsNone(statistics)

\* a processed session in which a later "Processar Dados" run has just failed
\* inside process_data
C29_Witness ==
    /\ data_processed
    /\ st_out.run = "process"
    /\ st_out.error = RequiredColumnError
    /\ ~IsNone(results_df)

-----------------------------------------------------------------------------
(* Further claims about the helpers of StatisticsAnalyzer (SpecAnalyzer) *)

\* C30: for current_error >= 0, target_error > 0 and current_plots >= 1,
\* calculate_required_plots returns at least current_plots, returns exactly
\* current_plots only when current_error <= target_error, and returns no less
\* than it does for any smaller current_error with the same target_error and
\* current_plots.
C30_RequiredPlotsMonotone ==
    Returned("calculate_required_plots") =>
        \A ce \in {analysis.args[1].v} :
        \A te \in {analysis.args[2]} :
        \A cp \in {analysis.args[3]} :
        \A n \in {Get(analysis.result)} :
           /\ n >= cp
           /\ n = cp => ce <= te
           /\ \A lower \in 0..ce : calculate_required_plots(lower, te, cp) <= n

\* a call above the target that returns more plots than the call one
\* percentage point lower, itself above the target
C30_Witness ==
    /\ Returned("calculate_required_plots")
    /\ analysis.args[1].v - 1 > analysis.args[2]
    /\ analysis.args[3] >= 1
    /\ Get(analysis.result) > analysis.args[3]
    /\ calculate_required_plots(analysis.args[1].v - 1, analysis.args[2], analysis.args[3])
          < Get(analysis.result)

=============================================================================
